---- MODULE Spec2Model ----
(***************************************************************************)
(* Project/task management REST API: the request pipeline                  *)
(*   authenticate -> [isProjectOwnerOrAdmin] -> controller -> formatResponse*)
(* over the users / projects / tasks tables.                                *)
(*                                                                         *)
(* Granularity.  Node runs one callback at a time, so the code between two  *)
(* awaits is atomic; every await in the controllers and middlewares is a    *)
(* storage call.  One action of the model is therefore one storage call of  *)
(* a request together with the synchronous code that follows it up to the   *)
(* next storage call (or up to the response).  Several requests are in      *)
(* flight at once and their steps interleave.                               *)
(*                                                                         *)
(* Optional values (undefined / null in the code) are sequences of length   *)
(* 0 or 1: <<>> is "absent", <<v>> is the value v.                          *)
(***************************************************************************)
EXTENDS Integers, Sequences, FiniteSets, TLC

VARIABLES
    users,      \* table users:    id -> [email, password, role, active]
    projects,   \* table projects: id -> [name, createdBy]
    tasks,      \* table tasks:    id -> [title, projectId, assignedTo]
    projectSeq, \* last AUTOINCREMENT id handed out by table projects
    taskSeq,    \* last AUTOINCREMENT id handed out by table tasks
    now,        \* the clock jwt.sign / jwt.verify read
    issued,     \* the tokens login has handed to clients
    reqs        \* the requests in flight: slot -> request

vars == <<users, projects, tasks, projectSeq, taskSeq, now, issued, reqs>>

----------------------------------------------------------------------------
(* Bounds of the model *)

MaxUsers == 2
MaxProjects == 1
MaxTasks == 1
MaxTime == 1
MaxTokens == 2
MaxInFlight == 2

(* process.env.JWT_EXPIRATION, in ticks of the clock *)
JWT_EXPIRATION == 1

(* process.env.JWT_SECRET, and a key that is not the server's *)
JWT_SECRET == "clave_secreta_muy_segura_para_jwt"
OtherKey == "not_the_server_key"

Slots == 1..MaxInFlight
UserIds == 1..MaxUsers

Absent == <<>>
Some(x) == <<x>>
Val(o) == o[1]

----------------------------------------------------------------------------
(* utils/response.js *)

getDefaultMessage(statusCode) ==
    CASE statusCode = 200 -> "OK"
      [] statusCode = 201 -> "Recurso creado correctamente"
      [] statusCode = 400 -> "Solicitud incorrecta"
      [] statusCode = 401 -> "No autorizado"
      [] statusCode = 403 -> "Acceso prohibido"
      [] statusCode = 404 -> "Recurso no encontrado"
      [] statusCode = 500 -> "Error interno del servidor"
      [] OTHER -> "Operación completada"

(* const response = {...}: message || getDefaultMessage(statusCode), so     *)
(* null and "" take the default; data || null; the timestamp is the clock   *)
response_successBelow500(statusCode, data, message) ==
    [success   |-> statusCode >= 200 /\ statusCode < 500,
     code      |-> statusCode,
     message   |-> IF message = Absent \/ message = Some("")
                   THEN getDefaultMessage(statusCode) ELSE Val(message),
     data      |-> data,
     timestamp |-> now]

response(statusCode, data, message) ==
    [success   |-> statusCode >= 200 /\ statusCode < 300,
     code      |-> statusCode,
     message   |-> IF message = Absent \/ message = Some("")
                   THEN getDefaultMessage(statusCode) ELSE Val(message),
     data      |-> data,
     timestamp |-> now]

formatResponse_anyCase(statusCode, data, message, format) ==
    [status      |-> statusCode,
     contentType |-> IF format \in {"xml", "XML"}
                     THEN "application/xml" ELSE "application/json",
     serializer  |-> IF format \in {"xml", "XML"} THEN "generateXML" ELSE "res.json",
     body        |-> response(statusCode, data, message)]

(* what formatResponse puts on the wire: res.status(statusCode), the        *)
(* Content-Type header, and the body, which is the response object through  *)
(* generateXML when format === 'xml' and through res.json otherwise         *)
formatResponse(statusCode, data, message, format) ==
    [status      |-> statusCode,
     contentType |-> IF format = "xml" THEN "application/xml" ELSE "application/json",
     serializer  |-> IF format = "xml" THEN "generateXML" ELSE "res.json",
     body        |-> response(statusCode, data, message)]

----------------------------------------------------------------------------
(* utils/response.js on the wire.  A JavaScript value is a node: kind is    *)
(* its type, leaf is String(value) for a scalar (and the ISO string for a   *)
(* Date), keys are an object's own enumerable keys, kids are the values of  *)
(* an object's keys or an array's items.  A Date has no own enumerable key. *)

JsScalar(kind, leaf) == [kind |-> kind, leaf |-> leaf, keys |-> <<>>, kids |-> <<>>]
JsNull == JsScalar("null", "null")
JsString(str) == JsScalar("string", str)
JsNumber(n) == JsScalar("number", ToString(n))
JsBoolean(b) == JsScalar("boolean", IF b THEN "true" ELSE "false")
JsDate(iso) == JsScalar("date", iso)
JsArray(items) == [kind |-> "array", leaf |-> "", keys |-> <<>>, kids |-> items]
JsObject(keys, values) == [kind |-> "object", leaf |-> "", keys |-> keys, kids |-> values]

(* typeof v === 'object' *)
typeofObject(v) == v.kind \in {"null", "date", "array", "object"}

(* !v *)
falsy(v) ==
    \/ v.kind = "null"
    \/ v.kind = "string" /\ v.leaf = ""
    \/ v.kind = "number" /\ v.leaf = "0"
    \/ v.kind = "boolean" /\ v.leaf = "false"

(* what the xml package is given: text, or a list of named elements *)
XmlText(str) == [kind |-> "text", leaf |-> str, names |-> <<>>, kids |-> <<>>]
XmlElements(names, kids) == [kind |-> "elements", leaf |-> "", names |-> names, kids |-> kids]

(* processObject of generateXML *)
RECURSIVE processObject(_)
processObject(obj) ==
    LET each(value) == IF typeofObject(value) /\ value.kind # "null"
                       THEN processObject(value)
                       ELSE XmlText(value.leaf)
        kids == [i \in 1..Len(obj.kids) |-> each(obj.kids[i])]
    IN IF obj.kind = "null" THEN XmlText("")
       ELSE IF obj.kind = "array"
       THEN XmlElements([i \in 1..Len(obj.kids) |-> "item"], kids)
       ELSE IF typeofObject(obj)
       THEN \* for (const key in obj): a Date has none
            XmlElements(obj.keys, kids)
       ELSE XmlText(obj.leaf)

(* xml({ response: processObject(data) }, { declaration: true }) *)
generateXML(data) ==
    [declaration |-> TRUE, root |-> XmlElements(<<"response">>, <<processObject(data)>>)]

(* JSON.stringify, as res.json applies it: a Date is written as the string  *)
(* its toJSON() returns, everything else keeps its type                     *)
RECURSIVE JSONstringify(_)
JSONstringify(v) ==
    IF v.kind = "date" THEN JsString(v.leaf)
    ELSE IF v.kind \in {"array", "object"}
    THEN [v EXCEPT !.kids = [i \in 1..Len(v.kids) |-> JSONstringify(v.kids[i])]]
    ELSE v

(* const response = {...} as a JavaScript value *)
responseValue(statusCode, data, message) ==
    JsObject(<<"success", "code", "message", "data", "timestamp">>,
             <<JsBoolean(statusCode >= 200 /\ statusCode < 300),
               JsNumber(statusCode),
               JsString(IF message = Absent \/ message = Some("")
                        THEN getDefaultMessage(statusCode) ELSE Val(message)),
               IF falsy(data) THEN JsNull ELSE data,
               JsString(ToString(now))>>)

(* formatResponse down to the bytes: status line, Content-Type and body *)
sendResponse(statusCode, data, message, format) ==
    [status      |-> statusCode,
     contentType |-> IF format = "xml" THEN "application/xml" ELSE "application/json",
     serializer  |-> IF format = "xml" THEN "generateXML" ELSE "res.json",
     body        |-> IF format = "xml"
                     THEN generateXML(responseValue(statusCode, data, message))
                     ELSE JSONstringify(responseValue(statusCode, data, message)),
     call        |-> [statusCode |-> statusCode, data |-> data, message |-> message]]

----------------------------------------------------------------------------
(* utils/jwt.js over jsonwebtoken.  A token is its payload and the MAC of   *)
(* the payload under the key that signed it; a string that is no JWT at all *)
(* has wellFormed = FALSE.                                                  *)

HMAC(payload, key) == <<payload, key>>

jwtSign(payload, key, expiresIn) ==
    LET full == [id |-> payload.id, email |-> payload.email,
                 role |-> payload.role, exp |-> now + expiresIn]
    IN [wellFormed |-> TRUE, payload |-> full, sig |-> HMAC(full, key)]

generateToken_otherKey(user) ==
    jwtSign([id |-> user.id, email |-> user.email, role |-> user.role],
            OtherKey, JWT_EXPIRATION)

generateToken(user) ==
    jwtSign([id |-> user.id, email |-> user.email, role |-> user.role],
            JWT_SECRET, JWT_EXPIRATION)

(* jwt.verify: throws on a malformed token, then on a bad signature, then   *)
(* on an expired one; otherwise returns the payload.                        *)
jwtVerify(token, key) ==
    IF ~token.wellFormed THEN [threw |-> TRUE, error |-> "jwt malformed", payload |-> token.payload]
    ELSE IF token.sig # HMAC(token.payload, key)
         THEN [threw |-> TRUE, error |-> "invalid signature", payload |-> token.payload]
    ELSE IF now >= token.payload.exp
         THEN [threw |-> TRUE, error |-> "jwt expired", payload |-> token.payload]
    ELSE [threw |-> FALSE, error |-> "", payload |-> token.payload]

(* try { return jwt.verify(...) } catch { return null } *)
verifyToken_decodeOnly(token) ==
    IF token.wellFormed THEN Some(token.payload) ELSE Absent

verifyToken(token) ==
    LET r == jwtVerify(token, JWT_SECRET)
    IN IF r.threw THEN Absent ELSE Some(r.payload)

----------------------------------------------------------------------------
(* models/User.js *)

Lower == {"a", "b", "c", "s", "w", "r", "d"}
Upper == {"P", "Q"}
Digit == {"0", "1"}
Symbol == {"!"}

(* /^(?=.*[a-z])(?=.*[A-Z])(?=.*\d)[a-zA-Z\d]{8,}$/ on a password given as  *)
(* its sequence of characters                                               *)
passwordRegex(pw) ==
    /\ \E i \in 1..Len(pw) : pw[i] \in Lower
    /\ \E i \in 1..Len(pw) : pw[i] \in Upper
    /\ \E i \in 1..Len(pw) : pw[i] \in Digit
    /\ \A i \in 1..Len(pw) : pw[i] \in Lower \cup Upper \cup Digit
    /\ Len(pw) >= 8

(* validate: { isEmail: true } *)
isEmail(e) == e \in {"a@test.com", "b@test.com"}

(* beforeCreate hook: bcrypt.hash; checkPassword: bcrypt.compare *)
bcryptHash(pw) == [alg |-> "bcrypt", of |-> pw]
checkPassword_anyPassword(user, pw) == TRUE

checkPassword(user, pw) == user.password = bcryptHash(pw)

User_findByPk(id) ==
    IF id \in DOMAIN users THEN Some([id |-> id] @@ users[id]) ELSE Absent

User_findOne(email) ==
    IF \E i \in DOMAIN users : users[i].email = email
    THEN Some(LET i == CHOOSE i \in DOMAIN users : users[i].email = email
              IN [id |-> i] @@ users[i])
    ELSE Absent

----------------------------------------------------------------------------
(* The request object.  pc names the storage call the request waits on.     *)

NoUser == [id |-> 0, email |-> "", role |-> ""]
NoParams == [id |-> Absent, projectId |-> Absent]
NoBody == [email |-> Absent, password |-> Absent, role |-> Absent,
           name |-> Absent, title |-> Absent, assignedTo |-> Absent,
           projectId |-> Absent, status |-> Absent, createdBy |-> Absent]
NoQuery == [status |-> Absent, search |-> Absent]
NoLocals == [task |-> Absent, project |-> Absent]

Idle == [route |-> "", pc |-> "idle", format |-> Absent, query |-> NoQuery,
         authorization |-> Absent,
         params |-> NoParams, body |-> NoBody, user |-> NoUser,
         project |-> Absent, locals |-> NoLocals, trail |-> <<>>,
         res |-> Absent]

Request(route, authorization, params, body) ==
    [Idle EXCEPT !.route = route, !.authorization = authorization,
                 !.params = params, !.body = body]

(* const format = req.query.format || 'json' *)
formatOf(r) ==
    IF r.format = Absent \/ r.format = Some("") THEN "json" ELSE Val(r.format)

(* res.formatResponse(...), or formatResponse(res, ..., format) in the      *)
(* gates, ends the request                                                  *)
Respond(r, statusCode, data, message) ==
    [r EXCEPT !.pc = "done",
              !.res = Some(formatResponse(statusCode, data, message, formatOf(r)))]

(* the first storage call of each controller *)
FirstStep(route) ==
    CASE route = "getProfile" -> "getProfile"
      [] route = "getProjects" -> "getProjects"
      [] route = "getProjectById" -> "getProjectById"
      [] route = "createProject" -> "createProject"
      [] route = "updateProject" -> "updateProject"
      [] route = "deleteProject" -> "deleteProject"
      [] route = "getProjectTasks" -> "getProjectTasks"
      [] route = "createTask" -> "createTask"
      [] route = "getTaskById" -> "getTaskById"
      [] route = "updateTask" -> "updateTask"
      [] route = "deleteTask" -> "deleteTask"
      [] route \in {"api/proyectos/*", "api/tareas/*"} -> "notFound"

(* routes/projectRoutes.js: PUT and DELETE /:id pass through the gate *)
GatedRoutes == {"updateProject", "deleteProject"}

AfterAuthenticate(route) ==
    IF route \in GatedRoutes THEN "isProjectOwnerOrAdmin" ELSE FirstStep(route)

(* routes/index.js, app.js: what a request that matches no route falls      *)
(* under: /api/proyectos and /api/tareas (behind router.use(authenticate)), *)
(* the rest of /api, and any path outside /api                              *)
UnmatchedRoutes == {"api/proyectos/*", "api/tareas/*", "api/*", "*"}

(* the routes behind authenticate *)
Protected ==
    {"getProfile", "getProjects", "getProjectById", "createProject",
     "updateProject", "deleteProject", "getProjectTasks", "createTask",
     "getTaskById", "updateTask", "deleteTask", "api/proyectos/*", "api/tareas/*"}

----------------------------------------------------------------------------
(* Initial state: the tables sequelize.sync() has just created, no request  *)
(* in flight.                                                               *)

Init ==
    /\ users = <<>>
    /\ projects = <<>>
    /\ tasks = <<>>
    /\ projectSeq = 0
    /\ taskSeq = 0
    /\ now = 0
    /\ issued = {}
    /\ reqs = [s \in Slots |-> Idle]

(* a new request takes the first free slot *)
Free(s) ==
    /\ reqs[s].pc = "idle"
    /\ \A t \in Slots : t < s => reqs[t].pc # "idle"

(* the response has been sent and the connection is gone *)
Close(s) ==
    /\ reqs[s].pc = "done"
    /\ reqs' = [reqs EXCEPT ![s] = Idle]
    /\ UNCHANGED <<users, projects, tasks, projectSeq, taskSeq, now, issued>>

----------------------------------------------------------------------------
(* The environment: time passes; an administrator of the database flips a   *)
(* user's active flag or changes a user's role (no route does either).      *)

Tick ==
    /\ now < MaxTime
    /\ now' = now + 1
    /\ UNCHANGED <<users, projects, tasks, projectSeq, taskSeq, issued, reqs>>

SetActive(i, b) ==
    /\ i \in DOMAIN users
    /\ users[i].active # b
    /\ users' = [users EXCEPT ![i].active = b]
    /\ UNCHANGED <<projects, tasks, projectSeq, taskSeq, now, issued, reqs>>

SetRole(i, role) ==
    /\ i \in DOMAIN users
    /\ users[i].role # role
    /\ users' = [users EXCEPT ![i].role = role]
    /\ UNCHANGED <<projects, tasks, projectSeq, taskSeq, now, issued, reqs>>

----------------------------------------------------------------------------
(* controllers/authController.js *)

PendingCreates == Cardinality({s \in Slots : reqs[s].pc = "register:create"})

(* register, up to and including User.findOne and the password check *)
registerLookup_passwordFirst(q) ==
    LET r == [q EXCEPT !.trail = <<"register">>]
        email == q.body.email
        password == q.body.password
    IN IF password = Absent \/ ~passwordRegex(Val(password))
       THEN Respond(r, 400, Absent,
                Some("La contraseña debe tener al menos 8 caracteres, una mayúscula, una minúscula y un número"))
       ELSE IF email = Absent
       THEN Respond(r, 500, Absent, Some("Error al registrar usuario"))
       ELSE IF User_findOne(Val(email)) # Absent
       THEN Respond(r, 400, Absent, Some("El correo electrónico ya está registrado"))
       ELSE [r EXCEPT !.pc = "register:create"]

registerLookup(q) ==
    LET r == [q EXCEPT !.trail = <<"register">>]
        email == q.body.email
        password == q.body.password
    IN IF email = Absent
       THEN \* findOne({ where: { email: undefined } }) throws
            Respond(r, 500, Absent, Some("Error al registrar usuario"))
       ELSE IF User_findOne(Val(email)) # Absent
       THEN Respond(r, 400, Absent, Some("El correo electrónico ya está registrado"))
       ELSE IF password = Absent \/ ~passwordRegex(Val(password))
       THEN Respond(r, 400, Absent,
                Some("La contraseña debe tener al menos 8 caracteres, una mayúscula, una minúscula y un número"))
       ELSE [r EXCEPT !.pc = "register:create"]

register(s, q) ==
    /\ Free(s)
    /\ q.route = "register"
    /\ \/ Cardinality(DOMAIN users) + PendingCreates < MaxUsers
       \/ q.body.email # Absent /\ User_findOne(Val(q.body.email)) # Absent
    /\ reqs' = [reqs EXCEPT ![s] = registerLookup(q)]
    /\ UNCHANGED <<users, projects, tasks, projectSeq, taskSeq, now, issued>>

(* the row User.create inserts; the beforeCreate hook hashes the password *)
NewUser(body) ==
    [email    |-> Val(body.email),
     password |-> bcryptHash(Val(body.password)),
     role     |-> IF body.role = Some("admin") THEN "admin" ELSE "user",
     active   |-> TRUE]

uniqueViolation_noIndex(email) == FALSE

(* email: { unique: true }: the INSERT fails when a row holds the email *)
uniqueViolation(email) == \E i \in DOMAIN users : users[i].email = email

(* User.create: the model's validators, then the INSERT under the UNIQUE    *)
(* index on email                                                           *)
register_create(s) ==
    LET r == reqs[s]
        id == Cardinality(DOMAIN users) + 1
    IN /\ r.pc = "register:create"
       /\ IF ~isEmail(Val(r.body.email))
          THEN /\ reqs' = [reqs EXCEPT ![s] =
                            Respond(r, 400, Absent, Some("Validation isEmail on email failed"))]
               /\ UNCHANGED users
          ELSE IF uniqueViolation(Val(r.body.email))
          THEN /\ reqs' = [reqs EXCEPT ![s] =
                            Respond(r, 400, Absent, Some("email must be unique"))]
               /\ UNCHANGED users
          ELSE /\ users' = (id :> NewUser(r.body)) @@ users
               /\ reqs' = [reqs EXCEPT ![s] =
                            Respond(r, 201,
                                Some([id |-> id, email |-> NewUser(r.body).email,
                                      role |-> NewUser(r.body).role]),
                                Some("Usuario registrado correctamente"))]
       /\ UNCHANGED <<projects, tasks, projectSeq, taskSeq, now, issued>>

(* login: one storage call (User.findOne); bcrypt.compare and jwt.sign work *)
(* on the row it returned                                                   *)
loginResult(q) ==
    LET r == [q EXCEPT !.trail = <<"login">>]
        email == q.body.email
        password == q.body.password
    IN IF email = Absent \/ email = Some("") \/ password = Absent \/ password = Some(<<>>)
       THEN Respond(r, 400, Absent, Some("Correo y contraseña son requeridos"))
       ELSE LET user == User_findOne(Val(email))
            IN IF user = Absent
               THEN Respond(r, 401, Absent, Some("Credenciales inválidas"))
               ELSE IF ~Val(user).active
               THEN Respond(r, 401, Absent, Some("Usuario inactivo. Contacte al administrador"))
               ELSE IF ~checkPassword(Val(user), Val(password))
               THEN Respond(r, 401, Absent, Some("Credenciales inválidas"))
               ELSE Respond(r, 200,
                        Some([user  |-> [id |-> Val(user).id, email |-> Val(user).email,
                                         role |-> Val(user).role],
                              token |-> generateToken(Val(user))]),
                        Some("Inicio de sesión exitoso"))

login(s, q) ==
    /\ Free(s)
    /\ q.route = "login"
    /\ LET r == loginResult(q)
       IN /\ reqs' = [reqs EXCEPT ![s] = r]
          /\ issued' = IF Val(r.res).status = 200
                       THEN issued \cup {Val(Val(r.res).body.data).token}
                       ELSE issued
          /\ Cardinality(issued') <= MaxTokens
    /\ UNCHANGED <<users, projects, tasks, projectSeq, taskSeq, now>>

getProfile(s) ==
    LET r == [reqs[s] EXCEPT !.trail = Append(@, "getProfile")]
        user == User_findByPk(r.user.id)
    IN /\ r.pc = "getProfile"
       /\ reqs' = [reqs EXCEPT ![s] =
            IF user = Absent
            THEN Respond(r, 404, Absent, Some("Usuario no encontrado"))
            ELSE Respond(r, 200,
                     Some([id |-> Val(user).id, email |-> Val(user).email,
                           role |-> Val(user).role, active |-> Val(user).active]),
                     Some("Perfil de usuario obtenido correctamente"))]
       /\ UNCHANGED <<users, projects, tasks, projectSeq, taskSeq, now, issued>>

----------------------------------------------------------------------------
(* middlewares/auth.js *)

(* if (scheme !== 'Bearer' || !token) is the failure *)
bearerFormat_anyScheme(scheme, token) == token # Absent

bearerFormat(scheme, token) == scheme = "Bearer" /\ token # Absent

(* req.user, as authenticate fills it *)
attachUser_fromClaims(user, decoded) ==
    [id |-> decoded.id, email |-> decoded.email, role |-> decoded.role]

attachUser(user, decoded) ==
    [id |-> user.id, email |-> user.email, role |-> user.role]

(* The Authorization header is held as the list authHeader.split(' ')       *)
(* returns; the empty header is <<"">>.                                     *)
authenticateResult(q) ==
    LET r == [q EXCEPT !.trail = <<"authenticate">>]
        authHeader == q.authorization
    IN IF authHeader = Absent \/ Val(authHeader) = <<"">>
       THEN Respond(r, 401, Absent, Some("No se proporcionó token de autenticación"))
       ELSE LET scheme == Val(authHeader)[1]
                token == IF Len(Val(authHeader)) >= 2
                         THEN Some(Val(authHeader)[2]) ELSE Absent
            IN IF ~bearerFormat(scheme, token)
               THEN Respond(r, 401, Absent, Some("Formato de token inválido"))
               ELSE LET decoded == verifyToken(Val(token))
                    IN IF decoded = Absent
                       THEN Respond(r, 401, Absent, Some("Token inválido o expirado"))
                       ELSE LET user == User_findByPk(Val(decoded).id)
                            IN IF user = Absent \/ ~Val(user).active
                               THEN Respond(r, 401, Absent,
                                        Some("Usuario no encontrado o inactivo"))
                               ELSE \* next()
                                    [r EXCEPT !.user = attachUser(Val(user), Val(decoded)),
                                              !.pc = AfterAuthenticate(q.route)]

authenticate(s, q) ==
    /\ Free(s)
    /\ q.route \in Protected
    /\ reqs' = [reqs EXCEPT ![s] = authenticateResult(q)]
    /\ UNCHANGED <<users, projects, tasks, projectSeq, taskSeq, now, issued>>

----------------------------------------------------------------------------
(* routes/index.js and app.js: the handlers around the routes *)

(* router.get('/') *)
apiRoot(s, q) ==
    /\ Free(s)
    /\ q.route = "api/"
    /\ reqs' = [reqs EXCEPT ![s] =
          Respond([q EXCEPT !.trail = <<"apiRoot">>], 200,
                  Some([message |-> "API de Gestión de Proyectos v1.0"]),
                  Some("API funcionando correctamente"))]
    /\ UNCHANGED <<users, projects, tasks, projectSeq, taskSeq, now, issued>>

(* router.use('*') *)
notFoundResult(r) ==
    Respond([r EXCEPT !.trail = Append(@, "notFound")], 404, Absent,
            Some("Ruta no encontrada"))

(* an unmatched path under /api outside the two authenticated routers *)
notFound(s, q) ==
    /\ Free(s)
    /\ q.route = "api/*"
    /\ reqs' = [reqs EXCEPT ![s] = notFoundResult(q)]
    /\ UNCHANGED <<users, projects, tasks, projectSeq, taskSeq, now, issued>>

(* an unmatched path under /api/proyectos or /api/tareas, once authenticate *)
(* has called next()                                                        *)
notFound_authenticated(s) ==
    /\ reqs[s].pc = "notFound"
    /\ reqs' = [reqs EXCEPT ![s] = notFoundResult(reqs[s])]
    /\ UNCHANGED <<users, projects, tasks, projectSeq, taskSeq, now, issued>>

(* a path outside /api: app mounts nothing there, and Express answers with  *)
(* its own 404 page                                                         *)
finalhandler(s, q) ==
    /\ Free(s)
    /\ q.route = "*"
    /\ reqs' = [reqs EXCEPT ![s] =
          [q EXCEPT !.pc = "done", !.trail = <<"finalhandler">>,
                    !.res = Some([status |-> 404, contentType |-> "text/html",
                                  serializer |-> "finalhandler",
                                  body |-> [html |-> "Cannot GET"]])]]
    /\ UNCHANGED <<users, projects, tasks, projectSeq, taskSeq, now, issued>>

(* app.use((err, req, res, next) => ...): through res.formatResponse when   *)
(* formatMiddleware has run, else the literal JSON envelope                 *)
errorHandler(r0, hasFormatResponse) ==
    LET r == [r0 EXCEPT !.trail = Append(@, "errorHandler")]
    IN IF hasFormatResponse
       THEN Respond(r, 500, Absent, Some("Error interno del servidor"))
       ELSE [r EXCEPT !.pc = "done",
                      !.res = Some([status |-> 500,
                                    contentType |-> "application/json",
                                    serializer |-> "res.json",
                                    body |-> [success |-> FALSE, code |-> 500,
                                              message |-> "Error interno del servidor",
                                              data |-> Absent,
                                              timestamp |-> now]])]

(* express.json() cannot parse the body and calls next(err): the router,    *)
(* and formatMiddleware with it, is never reached                           *)
expressJson_error(s, q) ==
    /\ Free(s)
    /\ reqs' = [reqs EXCEPT ![s] =
          errorHandler([q EXCEPT !.trail = <<"express.json">>], FALSE)]
    /\ UNCHANGED <<users, projects, tasks, projectSeq, taskSeq, now, issued>>

----------------------------------------------------------------------------
(* Storage failures.  Any storage call can throw (the database file is      *)
(* gone, the connection is lost); the try / catch around each gate and      *)
(* controller answers 500 with that handler's own message.                  *)

catchMessage_errorDetail(route) == "SQLITE_CANTOPEN: unable to open database file"

(* the message of each controller's catch block *)
catchMessage(route) ==
    CASE route = "register" -> "Error al registrar usuario"
      [] route = "login" -> "Error al iniciar sesión"
      [] route = "getProfile" -> "Error al obtener perfil de usuario"
      [] route = "getProjects" -> "Error al obtener proyectos"
      [] route = "getProjectById" -> "Error al obtener proyecto"
      [] route = "createProject" -> "Error al crear proyecto"
      [] route = "updateProject" -> "Error al actualizar proyecto"
      [] route = "deleteProject" -> "Error al eliminar proyecto"
      [] route = "getProjectTasks" -> "Error al obtener tareas"
      [] route = "createTask" -> "Error al crear tarea"
      [] route = "getTaskById" -> "Error al obtener tarea"
      [] route = "updateTask" -> "Error al actualizar tarea"
      [] route = "deleteTask" -> "Error al eliminar tarea"

(* User.findOne of register or login throws *)
account_throws(s, q) ==
    /\ Free(s)
    /\ q.route \in {"register", "login"}
    /\ q.route = "login" =>
         /\ q.body.email # Absent /\ q.body.email # Some("")
         /\ q.body.password # Absent /\ q.body.password # Some(<<>>)
    /\ reqs' = [reqs EXCEPT ![s] =
          Respond([q EXCEPT !.trail = <<q.route, "catch">>], 500, Absent,
                  Some(catchMessage(q.route)))]
    /\ UNCHANGED <<users, projects, tasks, projectSeq, taskSeq, now, issued>>

(* User.findByPk of authenticate throws: the header and the token were good *)
authenticate_throws(s, q) ==
    /\ Free(s)
    /\ q.route \in Protected
    /\ q.authorization # Absent
    /\ Len(Val(q.authorization)) >= 2
    /\ bearerFormat(Val(q.authorization)[1], Some(Val(q.authorization)[2]))
    /\ verifyToken(Val(q.authorization)[2]) # Absent
    /\ reqs' = [reqs EXCEPT ![s] =
          Respond([q EXCEPT !.trail = <<"authenticate", "catch">>], 500, Absent,
                  Some("Error en autenticación"))]
    /\ UNCHANGED <<users, projects, tasks, projectSeq, taskSeq, now, issued>>

(* Project.findByPk of isProjectOwnerOrAdmin throws *)
isProjectOwnerOrAdmin_throws(s) ==
    /\ reqs[s].pc = "isProjectOwnerOrAdmin"
    /\ reqs' = [reqs EXCEPT ![s] =
          Respond([reqs[s] EXCEPT !.trail = @ \o <<"isProjectOwnerOrAdmin", "catch">>],
                  500, Absent, Some("Error al verificar permisos"))]
    /\ UNCHANGED <<users, projects, tasks, projectSeq, taskSeq, now, issued>>

(* the storage call a controller waits on throws *)
controller_throws(s) ==
    /\ reqs[s].pc \notin {"idle", "done", "isProjectOwnerOrAdmin", "notFound"}
    /\ reqs' = [reqs EXCEPT ![s] =
          Respond([reqs[s] EXCEPT !.trail =
                       (IF @[Len(@)] = reqs[s].route THEN @ ELSE Append(@, reqs[s].route))
                       \o <<"catch">>],
                  500, Absent, Some(catchMessage(reqs[s].route)))]
    /\ UNCHANGED <<users, projects, tasks, projectSeq, taskSeq, now, issued>>

----------------------------------------------------------------------------
(* models/Project.js, models/Task.js, models/index.js *)

Project_findByPk(id) ==
    IF id \in DOMAIN projects THEN Some([id |-> id] @@ projects[id]) ELSE Absent

Task_findByPk(id) ==
    IF id \in DOMAIN tasks THEN Some([id |-> id] @@ tasks[id]) ELSE Absent

(* validate: { len: [2, 100] } on Project.name and Task.title *)
lenValid(str) == Len(str) >= 2 /\ Len(str) <= 100

(* the rows of tasks a DELETE of project id leaves: FOREIGN KEY (projectId)  *)
(* REFERENCES projects ON DELETE CASCADE                                     *)
cascade_none(id) == tasks

cascade(id) ==
    [t \in {t \in DOMAIN tasks : tasks[t].projectId # id} |-> tasks[t]]

Restrict(f, S) == [x \in S |-> f[x]]

(* the gate's test: project.createdBy === req.user.id ||                    *)
(* req.user.role === 'admin'                                                *)
isOwnerOrAdmin_ownerOnly(project, user) == project.createdBy = user.id

isOwnerOrAdmin(project, user) ==
    project.createdBy = user.id \/ user.role = "admin"

(* the test projectController.js repeats in getProjectById, updateProject   *)
(* and deleteProject: project.createdBy !== req.user.id &&                  *)
(* req.user.role !== 'admin' answers 403                                    *)
projectForbidden_adminToo(project, user) == project.createdBy # user.id

projectForbidden(project, user) ==
    project.createdBy # user.id /\ user.role # "admin"

(* the same test as taskController.js repeats it in its five controllers *)
taskForbidden_adminToo(project, user) == project.createdBy # user.id

taskForbidden(project, user) ==
    project.createdBy # user.id /\ user.role # "admin"

(* a || b || c on optional ids: the first one present, else the last *)
firstTruthy(a, b, c) == IF a # Absent THEN a ELSE IF b # Absent THEN b ELSE c

(* isProjectOwnerOrAdmin *)
gateResult(r0) ==
    LET r == [r0 EXCEPT !.trail = Append(@, "isProjectOwnerOrAdmin")]
        projectId == firstTruthy(r.params.projectId, r.params.id, r.body.projectId)
    IN IF projectId = Absent
       THEN Respond(r, 400, Absent, Some("ID de proyecto no proporcionado"))
       ELSE LET project == Project_findByPk(Val(projectId))
            IN IF project = Absent
               THEN Respond(r, 404, Absent, Some("Proyecto no encontrado"))
               ELSE IF isOwnerOrAdmin(Val(project), r.user)
               THEN \* req.project = project; next()
                    [r EXCEPT !.project = project, !.pc = FirstStep(r.route)]
               ELSE Respond(r, 403, Absent,
                        Some("No tiene permiso para modificar este proyecto"))

isProjectOwnerOrAdmin(s) ==
    /\ reqs[s].pc = "isProjectOwnerOrAdmin"
    /\ reqs' = [reqs EXCEPT ![s] = gateResult(reqs[s])]
    /\ UNCHANGED <<users, projects, tasks, projectSeq, taskSeq, now, issued>>

----------------------------------------------------------------------------
(* controllers/projectController.js *)

ProjectStatuses == {"active", "completed", "canceled"}

(* a key of a where object whose value is undefined *)
Undefined == "undefined"

(* whereConditions of getProjects: createdBy is always a key, and its value *)
(* is undefined for an admin; status and name are keys only when the query *)
(* gives a usable filter                                                    *)
whereConditions(user, query) ==
    [keys |-> {"createdBy"}
              \cup (IF query.status # Absent /\ Val(query.status) \in ProjectStatuses
                    THEN {"status"} ELSE {})
              \cup (IF query.search # Absent /\ query.search # Some("")
                    THEN {"name"} ELSE {}),
     createdBy |-> IF user.role = "admin" THEN Undefined ELSE ToString(user.id),
     status |-> IF query.status = Absent THEN Undefined ELSE Val(query.status),
     name |-> IF query.search = Absent THEN Undefined ELSE Val(query.search)]

(* what stands before and after the search term in a name the workload uses *)
Affixes == {"", "a", "b", "c", "d", "x"}

(* name LIKE '%search%' *)
like(name, search) == \E u \in Affixes, v \in Affixes : u \o search \o v = name

(* Project.findAll({ where }): Sequelize's query generator throws on a key  *)
(* whose value is undefined ("WHERE parameter ... has invalid undefined     *)
(* value"); otherwise the rows that meet every condition.  Absent: thrown.  *)
Project_findAll(where) ==
    IF \E k \in where.keys : where[k] = Undefined
    THEN Absent
    ELSE Some({p \in DOMAIN projects :
                 /\ ToString(projects[p].createdBy) = where.createdBy
                 /\ "status" \in where.keys => projects[p].status = where.status
                 /\ "name" \in where.keys => like(projects[p].name, where.name)})

getProjects(s) ==
    LET r == [reqs[s] EXCEPT !.trail = Append(@, "getProjects")]
        found == Project_findAll(whereConditions(r.user, r.query))
    IN /\ r.pc = "getProjects"
       /\ reqs' = [reqs EXCEPT ![s] =
            IF found = Absent
            THEN Respond(r, 500, Absent, Some("Error al obtener proyectos"))
            ELSE Respond(r, 200, found, Some("Proyectos obtenidos correctamente"))]
       /\ UNCHANGED <<users, projects, tasks, projectSeq, taskSeq, now, issued>>

getProjectByIdResult(r0) ==
    LET r == [r0 EXCEPT !.trail = Append(@, "getProjectById")]
        project == Project_findByPk(Val(r.params.id))
    IN IF project = Absent
       THEN Respond(r, 404, Absent, Some("Proyecto no encontrado"))
       ELSE IF projectForbidden(Val(project), r.user)
       THEN Respond(r, 403, Absent, Some("No tiene permisos para ver este proyecto"))
       ELSE Respond(r, 200, project, Some("Proyecto obtenido correctamente"))

getProjectById(s) ==
    /\ reqs[s].pc = "getProjectById"
    /\ reqs' = [reqs EXCEPT ![s] = getProjectByIdResult(reqs[s])]
    /\ UNCHANGED <<users, projects, tasks, projectSeq, taskSeq, now, issued>>

(* createProject: the name check, then Project.create with its validators *)
createProject(s) ==
    LET r == [reqs[s] EXCEPT !.trail = Append(@, "createProject")]
        name == r.body.name
        status == IF r.body.status = Absent \/ r.body.status = Some("")
                  THEN "active" ELSE Val(r.body.status)
        id == projectSeq + 1
    IN /\ r.pc = "createProject"
       /\ IF name = Absent \/ name = Some("")
          THEN /\ reqs' = [reqs EXCEPT ![s] =
                    Respond(r, 400, Absent, Some("El nombre del proyecto es requerido"))]
               /\ UNCHANGED <<projects, projectSeq>>
          ELSE IF ~lenValid(Val(name))
          THEN /\ reqs' = [reqs EXCEPT ![s] =
                    Respond(r, 400, Absent, Some("Validation len on name failed"))]
               /\ UNCHANGED <<projects, projectSeq>>
          ELSE /\ projectSeq < MaxProjects
               /\ projects' = (id :> [name |-> Val(name), status |-> status,
                                       createdBy |-> r.user.id])
                                @@ projects
               /\ projectSeq' = id
               /\ reqs' = [reqs EXCEPT ![s] =
                    Respond(r, 201, Some([id |-> id, name |-> Val(name),
                                          status |-> status,
                                          createdBy |-> r.user.id]),
                            Some("Proyecto creado correctamente"))]
       /\ UNCHANGED <<users, tasks, taskSeq, now, issued>>

(* updateProject / deleteProject, up to the permission check: the           *)
(* controller loads the project again and repeats the gate's test           *)
loadOwnProject(r0, handler, denied) ==
    LET r == [r0 EXCEPT !.trail = Append(@, handler)]
        project == Project_findByPk(Val(r.params.id))
    IN IF project = Absent
       THEN Respond(r, 404, Absent, Some("Proyecto no encontrado"))
       ELSE IF projectForbidden(Val(project), r.user)
       THEN Respond(r, 403, Absent, Some(denied))
       ELSE [r EXCEPT !.locals.project = project]

updateProject(s) ==
    LET r == loadOwnProject(reqs[s], "updateProject",
                            "No tiene permisos para modificar este proyecto")
    IN /\ reqs[s].pc = "updateProject"
       /\ reqs' = [reqs EXCEPT ![s] =
            IF r.pc = "done" THEN r ELSE [r EXCEPT !.pc = "updateProject:save"]]
       /\ UNCHANGED <<users, projects, tasks, projectSeq, taskSeq, now, issued>>

updatedProject_massAssign(old, body) ==
    [old EXCEPT !.name = IF body.name = Absent \/ body.name = Some("")
                         THEN @ ELSE Val(body.name),
                !.createdBy = IF body.createdBy = Absent THEN @ ELSE Val(body.createdBy)]

(* updateProject reads name, description, status, startDate and endDate     *)
(* from the body, nothing else, and assigns those that are given            *)
updatedProject(old, body) ==
    LET named == IF body.name = Absent \/ body.name = Some("") THEN old
                 ELSE [old EXCEPT !.name = Val(body.name)]
    IN IF body.status # Absent /\ Val(body.status) \in ProjectStatuses
       THEN [named EXCEPT !.status = Val(body.status)] ELSE named

(* UPDATE projects SET <the changed fields> WHERE id = project.id *)
savedProjects(old, project) ==
    IF project.id \in DOMAIN projects /\ project # old
    THEN [projects EXCEPT ![project.id] =
            [f \in DOMAIN @ |-> IF project[f] # old[f] THEN project[f] ELSE @[f]]]
    ELSE projects

updateProject_save_validateLater(s) ==
    LET r == reqs[s]
        old == Val(r.locals.project)
        project == updatedProject(old, r.body)
    IN /\ r.pc = "updateProject:save"
       /\ projects' = savedProjects(old, project)
       /\ reqs' = [reqs EXCEPT ![s] =
            IF ~lenValid(project.name)
            THEN Respond(r, 400, Absent, Some("Validation len on name failed"))
            ELSE Respond(r, 200, Some(project), Some("Proyecto actualizado correctamente"))]
       /\ UNCHANGED <<users, tasks, projectSeq, taskSeq, now, issued>>

(* if (name) project.name = name; await project.save(): the validators run  *)
(* on the changed instance, then UPDATE ... WHERE id = project.id            *)
updateProject_save(s) ==
    LET r == reqs[s]
        old == Val(r.locals.project)
        project == updatedProject(old, r.body)
    IN /\ r.pc = "updateProject:save"
       /\ IF ~lenValid(project.name)
          THEN /\ reqs' = [reqs EXCEPT ![s] =
                    Respond(r, 400, Absent, Some("Validation len on name failed"))]
               /\ UNCHANGED projects
          ELSE /\ projects' = savedProjects(old, project)
               /\ reqs' = [reqs EXCEPT ![s] =
                    Respond(r, 200, Some(project),
                            Some("Proyecto actualizado correctamente"))]
       /\ UNCHANGED <<users, tasks, projectSeq, taskSeq, now, issued>>

deleteProject(s) ==
    LET r == loadOwnProject(reqs[s], "deleteProject",
                            "No tiene permisos para eliminar este proyecto")
    IN /\ reqs[s].pc = "deleteProject"
       /\ reqs' = [reqs EXCEPT ![s] =
            IF r.pc = "done" THEN r ELSE [r EXCEPT !.pc = "deleteProject:destroy"]]
       /\ UNCHANGED <<users, projects, tasks, projectSeq, taskSeq, now, issued>>

(* await project.destroy(): DELETE FROM projects WHERE id = project.id; the *)
(* database deletes the project's tasks with it                             *)
destroyProject(id) ==
    /\ projects' = Restrict(projects, DOMAIN projects \ {id})
    /\ tasks' = cascade(id)

deleteProject_destroy(s) ==
    LET r == reqs[s]
        project == Val(r.locals.project)
    IN /\ r.pc = "deleteProject:destroy"
       /\ destroyProject(project.id)
       /\ reqs' = [reqs EXCEPT ![s] =
            Respond(r, 200, Some([id |-> Val(r.params.id)]),
                    Some("Proyecto eliminado correctamente"))]
       /\ UNCHANGED <<users, projectSeq, taskSeq, now, issued>>

----------------------------------------------------------------------------
(* controllers/taskController.js *)

tasksOf(projectId) == {t \in DOMAIN tasks : tasks[t].projectId = projectId}

(* the permission test of getTaskById / updateTask / deleteTask on the      *)
(* task's parent project; project.createdBy of a project that is gone       *)
(* throws, and the catch answers 500                                        *)
parentCheck(r, denied, failed) ==
    LET project == Project_findByPk(Val(r.locals.task).projectId)
    IN IF project = Absent
       THEN Respond(r, 500, Absent, Some(failed))
       ELSE IF taskForbidden(Val(project), r.user)
       THEN Respond(r, 403, Absent, Some(denied))
       ELSE [r EXCEPT !.locals.project = project]

(* Task.findByPk(id) of the three by-id controllers *)
loadTask(r0, handler, next) ==
    LET r == [r0 EXCEPT !.trail = Append(@, handler)]
        task == Task_findByPk(Val(r.params.id))
    IN IF task = Absent
       THEN Respond(r, 404, Absent, Some("Tarea no encontrada"))
       ELSE [r EXCEPT !.locals.task = task, !.pc = next]

getProjectTasksResult(r0) ==
    LET r == [r0 EXCEPT !.trail = Append(@, "getProjectTasks")]
        project == Project_findByPk(Val(r.params.projectId))
    IN IF project = Absent
       THEN Respond(r, 404, Absent, Some("Proyecto no encontrado"))
       ELSE IF taskForbidden(Val(project), r.user)
       THEN Respond(r, 403, Absent,
                Some("No tiene permisos para ver las tareas de este proyecto"))
       ELSE [r EXCEPT !.pc = "getProjectTasks:findAll"]

getProjectTasks(s) ==
    /\ reqs[s].pc = "getProjectTasks"
    /\ reqs' = [reqs EXCEPT ![s] = getProjectTasksResult(reqs[s])]
    /\ UNCHANGED <<users, projects, tasks, projectSeq, taskSeq, now, issued>>

getProjectTasks_findAll(s) ==
    LET r == reqs[s]
    IN /\ r.pc = "getProjectTasks:findAll"
       /\ reqs' = [reqs EXCEPT ![s] =
            Respond(r, 200, Some(tasksOf(Val(r.params.projectId))),
                    Some("Tareas obtenidas correctamente"))]
       /\ UNCHANGED <<users, projects, tasks, projectSeq, taskSeq, now, issued>>

getTaskById(s) ==
    /\ reqs[s].pc = "getTaskById"
    /\ reqs' = [reqs EXCEPT ![s] = loadTask(reqs[s], "getTaskById", "getTaskById:project")]
    /\ UNCHANGED <<users, projects, tasks, projectSeq, taskSeq, now, issued>>

getTaskById_project(s) ==
    LET r == parentCheck(reqs[s], "No tiene permisos para ver esta tarea",
                         "Error al obtener tarea")
    IN /\ reqs[s].pc = "getTaskById:project"
       /\ reqs' = [reqs EXCEPT ![s] =
            IF r.pc = "done" THEN r
            ELSE Respond(r, 200, r.locals.task, Some("Tarea obtenida correctamente"))]
       /\ UNCHANGED <<users, projects, tasks, projectSeq, taskSeq, now, issued>>

(* createTask, up to the permission check *)
(* The values of a JSON body field that holds an id.  Absent is undefined   *)
(* (the field is missing), Some(n) with n >= 1 an id; the other three stand *)
(* for the falsy values 0, '' and null.                                     *)
Zero == 0
EmptyString == -1
Null == -2

(* if (assignedTo): undefined, null, 0 and '' are falsy *)
truthy(v) == v # Absent /\ Val(v) \notin {Zero, EmptyString, Null}

(* the value the column gets: undefined and null are stored as NULL *)
column(v) == IF v = Some(Null) THEN Absent ELSE v

createTaskResult(r0) ==
    LET r == [r0 EXCEPT !.trail = Append(@, "createTask")]
        title == r.body.title
        assignedTo == r.body.assignedTo
    IN IF title = Absent \/ title = Some("")
       THEN Respond(r, 400, Absent, Some("El título de la tarea es requerido"))
       ELSE LET project == Project_findByPk(Val(r.params.projectId))
            IN IF project = Absent
               THEN Respond(r, 404, Absent, Some("Proyecto no encontrado"))
               ELSE IF taskForbidden(Val(project), r.user)
               THEN Respond(r, 403, Absent,
                        Some("No tiene permisos para añadir tareas a este proyecto"))
               ELSE [r EXCEPT !.pc = IF truthy(assignedTo)
                                     THEN "createTask:assignee"
                                     ELSE "createTask:create"]

createTask(s) ==
    /\ reqs[s].pc = "createTask"
    /\ reqs' = [reqs EXCEPT ![s] = createTaskResult(reqs[s])]
    /\ UNCHANGED <<users, projects, tasks, projectSeq, taskSeq, now, issued>>

(* if (assignedTo) { assignee = await User.findByPk(assignedTo) ... } *)
assigneeResult_unchecked(r, next) == [r EXCEPT !.pc = next]

assigneeResult(r, next) ==
    IF User_findByPk(Val(r.body.assignedTo)) = Absent
    THEN Respond(r, 404, Absent, Some("Usuario asignado no encontrado"))
    ELSE [r EXCEPT !.pc = next]

createTask_assignee(s) ==
    /\ reqs[s].pc = "createTask:assignee"
    /\ reqs' = [reqs EXCEPT ![s] = assigneeResult(reqs[s], "createTask:create")]
    /\ UNCHANGED <<users, projects, tasks, projectSeq, taskSeq, now, issued>>

(* the FOREIGN KEY constraints of table tasks, checked by the database on   *)
(* INSERT and UPDATE                                                        *)
foreignKeysHold_projectOnly(row) == row.projectId \in DOMAIN projects

foreignKeysHold_assigneeOnly(row) ==
    row.assignedTo = Absent \/ Val(row.assignedTo) \in DOMAIN users

foreignKeysHold(row) ==
    /\ row.projectId \in DOMAIN projects
    /\ row.assignedTo = Absent \/ Val(row.assignedTo) \in DOMAIN users

(* await Task.create({...}) *)
createTask_create(s) ==
    LET r == reqs[s]
        id == taskSeq + 1
        row == [title |-> Val(r.body.title),
                projectId |-> Val(r.params.projectId),
                assignedTo |-> column(r.body.assignedTo)]
    IN /\ r.pc = "createTask:create"
       /\ IF ~lenValid(row.title)
          THEN /\ reqs' = [reqs EXCEPT ![s] =
                    Respond(r, 400, Absent, Some("Validation len on title failed"))]
               /\ UNCHANGED <<tasks, taskSeq>>
          ELSE IF ~foreignKeysHold(row)
          THEN /\ reqs' = [reqs EXCEPT ![s] =
                    Respond(r, 500, Absent, Some("Error al crear tarea"))]
               /\ UNCHANGED <<tasks, taskSeq>>
          ELSE /\ taskSeq < MaxTasks
               /\ tasks' = (id :> row) @@ tasks
               /\ taskSeq' = id
               /\ reqs' = [reqs EXCEPT ![s] =
                    IF truthy(r.body.assignedTo)
                    THEN [r EXCEPT !.locals.task = Some([id |-> id] @@ row),
                                   !.pc = "createTask:reload"]
                    ELSE Respond(r, 201, Some([id |-> id] @@ row),
                                 Some("Tarea creada correctamente"))]
       /\ UNCHANGED <<users, projects, projectSeq, now, issued>>

(* await task.reload(...): throws when the row is gone *)
reloadResult(r, statusCode, message, failed) ==
    LET task == Task_findByPk(Val(r.locals.task).id)
    IN IF task = Absent
       THEN Respond(r, 500, Absent, Some(failed))
       ELSE Respond(r, statusCode, task, Some(message))

createTask_reload(s) ==
    /\ reqs[s].pc = "createTask:reload"
    /\ reqs' = [reqs EXCEPT ![s] =
            reloadResult(reqs[s], 201, "Tarea creada correctamente", "Error al crear tarea")]
    /\ UNCHANGED <<users, projects, tasks, projectSeq, taskSeq, now, issued>>

updateTask(s) ==
    /\ reqs[s].pc = "updateTask"
    /\ reqs' = [reqs EXCEPT ![s] = loadTask(reqs[s], "updateTask", "updateTask:project")]
    /\ UNCHANGED <<users, projects, tasks, projectSeq, taskSeq, now, issued>>

updateTask_project(s) ==
    LET r == parentCheck(reqs[s], "No tiene permisos para modificar esta tarea",
                         "Error al actualizar tarea")
        assignedTo == r.body.assignedTo
    IN /\ reqs[s].pc = "updateTask:project"
       /\ reqs' = [reqs EXCEPT ![s] =
            IF r.pc = "done" THEN r
            ELSE [r EXCEPT !.pc =
                    IF truthy(assignedTo) /\ assignedTo # Val(r.locals.task).assignedTo
                    THEN "updateTask:assignee" ELSE "updateTask:save"]]
       /\ UNCHANGED <<users, projects, tasks, projectSeq, taskSeq, now, issued>>

updateTask_assignee(s) ==
    /\ reqs[s].pc = "updateTask:assignee"
    /\ reqs' = [reqs EXCEPT ![s] = assigneeResult(reqs[s], "updateTask:save")]
    /\ UNCHANGED <<users, projects, tasks, projectSeq, taskSeq, now, issued>>

(* the assignments to task, then await task.save() *)
updateTask_save(s) ==
    LET r == reqs[s]
        old == Val(r.locals.task)
        title == r.body.title
        assignedTo == r.body.assignedTo
        task == [old EXCEPT
                   !.title = IF title = Absent \/ title = Some("") THEN @ ELSE Val(title),
                   !.assignedTo = IF assignedTo # Absent THEN column(assignedTo) ELSE @]
        row == [title |-> task.title, projectId |-> task.projectId,
                assignedTo |-> task.assignedTo]
    IN /\ r.pc = "updateTask:save"
       /\ IF ~lenValid(task.title)
          THEN /\ reqs' = [reqs EXCEPT ![s] =
                    Respond(r, 400, Absent, Some("Validation len on title failed"))]
               /\ UNCHANGED tasks
          ELSE IF task.id \in DOMAIN tasks /\ task # old /\ ~foreignKeysHold(row)
          THEN /\ reqs' = [reqs EXCEPT ![s] =
                    Respond(r, 500, Absent, Some("Error al actualizar tarea"))]
               /\ UNCHANGED tasks
          ELSE /\ tasks' = IF task.id \in DOMAIN tasks /\ task # old
                           THEN [tasks EXCEPT ![task.id] = row]
                           ELSE tasks
               /\ reqs' = [reqs EXCEPT ![s] =
                    IF truthy(task.assignedTo)
                    THEN [r EXCEPT !.locals.task = Some(task), !.pc = "updateTask:reload"]
                    ELSE Respond(r, 200, Some(task),
                                 Some("Tarea actualizada correctamente"))]
       /\ UNCHANGED <<users, projects, projectSeq, taskSeq, now, issued>>

updateTask_reload(s) ==
    /\ reqs[s].pc = "updateTask:reload"
    /\ reqs' = [reqs EXCEPT ![s] =
            reloadResult(reqs[s], 200, "Tarea actualizada correctamente",
                         "Error al actualizar tarea")]
    /\ UNCHANGED <<users, projects, tasks, projectSeq, taskSeq, now, issued>>

deleteTask(s) ==
    /\ reqs[s].pc = "deleteTask"
    /\ reqs' = [reqs EXCEPT ![s] = loadTask(reqs[s], "deleteTask", "deleteTask:project")]
    /\ UNCHANGED <<users, projects, tasks, projectSeq, taskSeq, now, issued>>

deleteTask_project(s) ==
    LET r == parentCheck(reqs[s], "No tiene permisos para eliminar esta tarea",
                         "Error al eliminar tarea")
    IN /\ reqs[s].pc = "deleteTask:project"
       /\ reqs' = [reqs EXCEPT ![s] =
            IF r.pc = "done" THEN r ELSE [r EXCEPT !.pc = "deleteTask:destroy"]]
       /\ UNCHANGED <<users, projects, tasks, projectSeq, taskSeq, now, issued>>

(* await task.destroy() *)
deleteTask_destroy(s) ==
    LET r == reqs[s]
    IN /\ r.pc = "deleteTask:destroy"
       /\ tasks' = Restrict(tasks, DOMAIN tasks \ {Val(r.locals.task).id})
       /\ reqs' = [reqs EXCEPT ![s] =
            Respond(r, 200, Some([id |-> Val(r.params.id)]),
                    Some("Tarea eliminada correctamente"))]
       /\ UNCHANGED <<users, projects, projectSeq, taskSeq, now, issued>>

----------------------------------------------------------------------------
(* The requests clients send *)

Emails == {"a@test.com", "b@test.com"}
GoodPassword == <<"P", "a", "s", "s", "w", "0", "r", "d">>
WeakPassword == <<"a", "b", "c">>
SymbolPassword == <<"P", "a", "s", "s", "w", "0", "r", "d", "!">>
ShortPassword == <<"P", "a", "0">>
NoDigitPassword == <<"P", "a", "s", "s", "w", "w", "r", "d">>
NoUpperPassword == <<"a", "a", "s", "s", "w", "0", "r", "d">>
NoLowerPassword == <<"P", "P", "Q", "Q", "P", "0", "1", "0">>
Passwords ==
    {GoodPassword, WeakPassword, SymbolPassword, ShortPassword,
     NoDigitPassword, NoUpperPassword, NoLowerPassword}

RegisterRequests(emails, passwords) ==
    {Request("register", Absent, NoParams,
             [NoBody EXCEPT !.email = Some(e), !.password = Some(p), !.role = ro]) :
        e \in emails, p \in passwords, ro \in {Absent, Some("admin")}}

LoginRequests(emails, passwords) ==
    {Request("login", Absent, NoParams,
             [NoBody EXCEPT !.email = e, !.password = Some(p)]) :
        e \in emails, p \in passwords}

(* what a client can make of a token it holds without the server's key:     *)
(* the payload edited under the old signature                               *)
Tampered(t) ==
    {[t EXCEPT !.payload.role = "admin"], [t EXCEPT !.payload.exp = @ + 1]} \ {t}

(* a token signed with another key, and a string that is no JWT *)
Forged == jwtSign([id |-> 1, email |-> "a@test.com", role |-> "admin"], OtherKey, 1)
Malformed == [Forged EXCEPT !.wellFormed = FALSE]

GoodHeaders == {Some(<<"Bearer", t>>) : t \in issued}

BadHeaders ==
    {Absent, Some(<<"">>), Some(<<"Bearer">>)}
    \cup {Some(<<"Basic", t>>) : t \in issued}
    \cup {Some(<<"Bearer", t>>) :
            t \in UNION {Tampered(t) : t \in issued} \cup {Forged, Malformed}}

ProjectIds == 1..(MaxProjects + 1)
TaskIds == 1..(MaxTasks + 1)

IdParam(i) == [NoParams EXCEPT !.id = Some(i)]
ProjectIdParam(i) == [NoParams EXCEPT !.projectId = Some(i)]

AccountRequests(routes, headers) ==
    {Request(route, h, NoParams, NoBody) : route \in routes, h \in headers}

CreateProjectRequests(headers, names) ==
    {Request("createProject", h, NoParams, [NoBody EXCEPT !.name = n]) :
        h \in headers, n \in names}

ProjectByIdRequests(routes, headers) ==
    {Request(route, h, IdParam(i), NoBody) :
        route \in routes, h \in headers, i \in ProjectIds}

UpdateProjectRequests(headers, names) ==
    {Request("updateProject", h, IdParam(i), [NoBody EXCEPT !.name = n]) :
        h \in headers, i \in ProjectIds, n \in names}

ProjectRequests(headers) ==
    CreateProjectRequests(headers, {Absent, Some("x"), Some("ab")})
    \cup ProjectByIdRequests({"getProjectById", "deleteProject"}, headers)
    \cup UpdateProjectRequests(headers, {Absent, Some("x"), Some("cd")})

Assignees == {Absent} \cup {Some(u) : u \in 1..(MaxUsers + 1)}

ProjectTasksRequests(headers) ==
    {Request("getProjectTasks", h, ProjectIdParam(i), NoBody) :
        h \in headers, i \in ProjectIds}

CreateTaskRequests(headers, titles, assignees) ==
    {Request("createTask", h, ProjectIdParam(i),
             [NoBody EXCEPT !.title = t, !.assignedTo = a]) :
        h \in headers, i \in ProjectIds, t \in titles, a \in assignees}

TaskByIdRequests(routes, headers) ==
    {Request(route, h, IdParam(i), NoBody) :
        route \in routes, h \in headers, i \in TaskIds}

UpdateTaskRequests(headers, titles, assignees) ==
    {Request("updateTask", h, IdParam(i),
             [NoBody EXCEPT !.title = t, !.assignedTo = a]) :
        h \in headers, i \in TaskIds, t \in titles, a \in assignees}

TaskRequests(headers) ==
    ProjectTasksRequests(headers)
    \cup CreateTaskRequests(headers, {Absent, Some("t"), Some("do")}, Assignees)
    \cup TaskByIdRequests({"getTaskById", "deleteTask"}, headers)
    \cup UpdateTaskRequests(headers, {Absent, Some("t"), Some("it")}, Assignees)

----------------------------------------------------------------------------
(* Next-state relations.  S is the set of slots, that is, how many requests *)
(* are in flight at once.                                                   *)

Environment ==
    \/ Tick
    \/ \E i \in UserIds, b \in BOOLEAN : SetActive(i, b)
    \/ \E i \in UserIds, role \in {"admin", "user"} : SetRole(i, role)

ProjectSteps(S) ==
    \/ \E s \in S : isProjectOwnerOrAdmin(s)
    \/ \E s \in S : getProjectById(s)
    \/ \E s \in S : createProject(s)
    \/ \E s \in S : updateProject(s)
    \/ \E s \in S : updateProject_save(s)
    \/ \E s \in S : deleteProject(s)
    \/ \E s \in S : deleteProject_destroy(s)

TaskSteps(S) ==
    \/ \E s \in S : getProjectTasks(s)
    \/ \E s \in S : getProjectTasks_findAll(s)
    \/ \E s \in S : getTaskById(s)
    \/ \E s \in S : getTaskById_project(s)
    \/ \E s \in S : createTask(s)
    \/ \E s \in S : createTask_assignee(s)
    \/ \E s \in S : createTask_create(s)
    \/ \E s \in S : createTask_reload(s)
    \/ \E s \in S : updateTask(s)
    \/ \E s \in S : updateTask_project(s)
    \/ \E s \in S : updateTask_assignee(s)
    \/ \E s \in S : updateTask_save(s)
    \/ \E s \in S : updateTask_reload(s)
    \/ \E s \in S : deleteTask(s)
    \/ \E s \in S : deleteTask_project(s)
    \/ \E s \in S : deleteTask_destroy(s)

(* the whole API under every request *)
Next ==
    \/ \E s \in Slots,
          q \in RegisterRequests(Emails \cup {"nomail"}, {GoodPassword, WeakPassword}) :
          register(s, q)
    \/ \E s \in Slots : register_create(s)
    \/ \E s \in Slots,
          q \in LoginRequests({Absent} \cup {Some(e) : e \in Emails},
                              {GoodPassword, WeakPassword}) : login(s, q)
    \/ \E s \in Slots,
          q \in AccountRequests({"getProfile", "getProjects"}, GoodHeaders \cup BadHeaders)
                \cup ProjectRequests(GoodHeaders \cup BadHeaders)
                \cup TaskRequests(GoodHeaders \cup BadHeaders) : authenticate(s, q)
    \/ \E s \in Slots : getProfile(s)
    \/ \E s \in Slots : getProjects(s)
    \/ \E s \in Slots : Close(s)
    \/ ProjectSteps(Slots)
    \/ TaskSteps(Slots)
    \/ Environment

Spec == Init /\ [][Next]_vars

(* One client at a time: accounts, credentials and the authenticate gate    *)
(* under every header a client can send, with the clock and the             *)
(* administrator at work.                                                   *)
NextAuth ==
    \/ \E q \in RegisterRequests(Emails, {GoodPassword, WeakPassword}) : register(1, q)
    \/ register_create(1)
    \/ \E q \in LoginRequests({Some(e) : e \in Emails}, {GoodPassword, WeakPassword}) :
          login(1, q)
    \/ \E q \in AccountRequests({"getProfile"}, GoodHeaders \cup BadHeaders)
                \cup ProjectByIdRequests({"getProjectById"}, GoodHeaders) :
          authenticate(1, q)
    \/ getProfile(1)
    \/ getProjectById(1)
    \/ Close(1)
    \/ Environment

SpecAuth == Init /\ [][NextAuth]_vars

----------------------------------------------------------------------------
(* Vocabulary of the properties *)

NoToken == "No se proporcionó token de autenticación"
BadFormat == "Formato de token inválido"
BadToken == "Token inválido o expirado"
NoIdentity == "Usuario no encontrado o inactivo"

(* the response object of r's answer *)
Res(r) == Val(r.res).body

(* a request arrives in slot s and its first middleware or controller runs *)
Arrives(s, first) ==
    /\ reqs[s].pc = "idle"
    /\ reqs'[s].pc # "idle"
    /\ reqs'[s].trail[1] = first

(* slot s answers its request in this step *)
Answers(s) == reqs[s].pc # "done" /\ reqs'[s].pc = "done"

(* authenticate answered r itself with 401 and message m: nothing attached, *)
(* next() never called                                                      *)
Rejected(r, m) ==
    /\ r.pc = "done"
    /\ Res(r).code = 401 /\ ~Res(r).success /\ Res(r).message = m
    /\ r.user = NoUser
    /\ r.trail = <<"authenticate">>

(* authenticate called next() for r *)
Passed(r) == r.pc # "done" /\ r.user # NoUser

HeaderMissing(h) == h = Absent \/ Val(h) = <<"">>
HeaderIsBearer(h) == ~HeaderMissing(h) /\ Val(h)[1] = "Bearer" /\ Len(Val(h)) >= 2
BearerToken(h) == Val(h)[2]
ActiveIdentity(id) == id \in DOMAIN users /\ users[id].active

----------------------------------------------------------------------------
(* C1: authenticate checks, in this order, that the Authorization header is *)
(* present, that it has the form Bearer <token>, that the codec accepts the *)
(* token, and that the token's subject is an active user; the first check   *)
(* that fails answers 401 with that check's message, attaches nothing to    *)
(* the request and never calls next().                                      *)
C1_Order(r) ==
    LET h == r.authorization
    IN IF HeaderMissing(h) THEN Rejected(r, NoToken)
       ELSE IF ~HeaderIsBearer(h) THEN Rejected(r, BadFormat)
       ELSE IF verifyToken(BearerToken(h)) = Absent THEN Rejected(r, BadToken)
       ELSE IF ~ActiveIdentity(BearerToken(h).payload.id) THEN Rejected(r, NoIdentity)
       ELSE Passed(r)

C1_GateOrder ==
    [][\A s \in Slots : Arrives(s, "authenticate") => C1_Order(reqs'[s])]_vars

(* a token that verifies, of a user who is no longer active, was answered   *)
(* with the fourth message                                                  *)
C1_Witness ==
    \E s \in Slots :
        /\ reqs[s].pc = "done"
        /\ Rejected(reqs[s], NoIdentity)
        /\ HeaderIsBearer(reqs[s].authorization)
        /\ BearerToken(reqs[s].authorization) \in issued

----------------------------------------------------------------------------
(* C2: the {id, email, role} authenticate attaches are those of the users   *)
(* row it loaded in that request, not the token's claims; and a request     *)
(* whose token names a user with active = false is answered 401.            *)
LiveIdentity(id) == [id |-> id, email |-> users[id].email, role |-> users[id].role]

C2_Live(r) ==
    LET h == r.authorization
    IN /\ Passed(r) => r.user = LiveIdentity(BearerToken(h).payload.id)
       /\ (/\ HeaderIsBearer(h)
           /\ BearerToken(h).payload.id \in DOMAIN users
           /\ ~users[BearerToken(h).payload.id].active)
          => r.pc = "done" /\ Res(r).code = 401 /\ r.user = NoUser

C2_LiveIdentity ==
    [][\A s \in Slots : Arrives(s, "authenticate") => C2_Live(reqs'[s])]_vars

(* a request went through with a role that is not the one in its token *)
C2_Witness ==
    \E s \in Slots :
        /\ reqs[s].pc = "getProfile"
        /\ reqs[s].user.role # BearerToken(reqs[s].authorization).payload.role

----------------------------------------------------------------------------
(* C3: a token that the server did not sign as presented (payload edited,   *)
(* or signed with another key), that is no JWT, or whose expiry has passed, *)
(* makes verifyToken return null and authenticate answer 401 "Token         *)
(* inválido o expirado", the same for all these causes.                     *)
BadCredential(t) ==
    \/ ~t.wellFormed
    \/ t \notin issued
    \/ now >= t.payload.exp

C3_Invalid(r) ==
    LET h == r.authorization
    IN (HeaderIsBearer(h) /\ BadCredential(BearerToken(h)))
        => /\ verifyToken(BearerToken(h)) = Absent
           /\ Rejected(r, BadToken)

C3_InvalidToken ==
    [][\A s \in Slots : Arrives(s, "authenticate") => C3_Invalid(reqs'[s])]_vars

(* an expired token of the server's own, and an edited one, were rejected *)
C3_Witness ==
    \E s \in Slots :
        /\ reqs[s].pc = "done"
        /\ Rejected(reqs[s], BadToken)
        /\ BearerToken(reqs[s].authorization) \in issued
        /\ now >= BearerToken(reqs[s].authorization).payload.exp

----------------------------------------------------------------------------
(* C8 as stated: after a login with the right email and password of an      *)
(* active user, a request that carries the token before its expiry, to any  *)
(* protected endpoint, is answered 200 or 201.                               *)
HoldsLiveToken(r) ==
    LET h == r.authorization
    IN /\ HeaderIsBearer(h)
       /\ BearerToken(h) \in issued
       /\ now < BearerToken(h).payload.exp
       /\ ActiveIdentity(BearerToken(h).payload.id)

C8_AnyEndpointSucceeds ==
    [][\A s \in Slots :
         (Answers(s) /\ HoldsLiveToken(reqs'[s])) => Res(reqs'[s]).code \in {200, 201}]_vars

(* C8 as amended: a login with the email and password of an active user is  *)
(* answered 200 with a token that verifies; a request that carries that     *)
(* token before its expiry, while the user is active, passes authenticate;  *)
(* GET /perfil, which asks for nothing more, is then answered 200 with the  *)
(* caller's identity.  Other endpoints answer by their own checks.          *)
CorrectLogin(r) ==
    /\ r.body.email # Absent /\ r.body.password # Absent
    /\ \E i \in DOMAIN users :
          /\ users[i].email = Val(r.body.email)
          /\ users[i].active
          /\ users[i].password = bcryptHash(Val(r.body.password))

C8_Login(r) ==
    CorrectLogin(r) =>
        /\ r.pc = "done" /\ Res(r).code = 200 /\ Res(r).success
        /\ LET t == Val(Res(r).data).token
           IN /\ verifyToken(t) # Absent
              /\ t.payload.id \in DOMAIN users
              /\ users[t.payload.id].email = Val(r.body.email)

C8_Profile(r) ==
    /\ Res(r).code = 200
    /\ Val(Res(r).data).id = r.user.id
    /\ Val(Res(r).data).email = users[r.user.id].email

C8_LoginThenUse ==
    [][\A s \in Slots :
         /\ Arrives(s, "login") => C8_Login(reqs'[s])
         /\ (Arrives(s, "authenticate") /\ HoldsLiveToken(reqs'[s])) => Passed(reqs'[s])
         /\ (Answers(s) /\ reqs[s].pc = "getProfile") => C8_Profile(reqs'[s])]_vars

(* GET /perfil with a token login issued was answered 200 *)
C8_Witness ==
    \E s \in Slots :
        /\ reqs[s].pc = "done" /\ reqs[s].route = "getProfile"
        /\ Res(reqs[s]).code = 200
        /\ BearerToken(reqs[s].authorization) \in issued

----------------------------------------------------------------------------
(* C10: register with an email some stored user already has is answered     *)
(* 400 "El correo electrónico ya está registrado" and stores no user,       *)
(* whatever the password and role of the request are.                       *)
EmailTaken(r) ==
    r.body.email # Absent /\ \E i \in DOMAIN users : users[i].email = Val(r.body.email)

C10_Duplicate(r) ==
    EmailTaken(r) =>
        /\ r.pc = "done"
        /\ Res(r).code = 400 /\ ~Res(r).success
        /\ Res(r).message = "El correo electrónico ya está registrado"
        /\ users' = users

C10_DuplicateEmail ==
    [][\A s \in Slots : Arrives(s, "register") => C10_Duplicate(reqs'[s])]_vars

(* a second registration of an email, this time with a password the regex   *)
(* rejects, was answered with the duplicate-email message                   *)
C10_Witness ==
    \E s \in Slots :
        /\ reqs[s].pc = "done" /\ reqs[s].route = "register"
        /\ Res(reqs[s]).message = "El correo electrónico ya está registrado"
        /\ reqs[s].body.password = Some(WeakPassword)
        /\ EmailTaken(reqs[s])

----------------------------------------------------------------------------
(* One client at a time: two registered users work on projects; the         *)
(* administrator changes roles under them.                                  *)
NextProject ==
    \/ \E q \in RegisterRequests(Emails, {GoodPassword}) : register(1, q)
    \/ register_create(1)
    \/ \E q \in LoginRequests({Some(e) : e \in Emails}, {GoodPassword}) : login(1, q)
    \/ \E q \in ProjectRequests(GoodHeaders) : authenticate(1, q)
    \/ ProjectSteps({1})
    \/ Close(1)
    \/ \E i \in UserIds, role \in {"admin", "user"} : SetRole(i, role)

SpecProject == Init /\ [][NextProject]_vars

----------------------------------------------------------------------------
(* C4 as stated: on a project that exists, GET, PUT and DELETE by an        *)
(* authenticated caller who is neither its creator nor an admin are         *)
(* answered 403, and the same request by an admin succeeds.                 *)
OnProject(r) ==
    /\ r.route \in {"getProjectById", "updateProject", "deleteProject"}
    /\ r.user # NoUser

(* slot s answers a request on a project that is stored as it answers *)
AnswersOnProject(s) ==
    /\ Answers(s)
    /\ OnProject(reqs'[s])
    /\ Val(reqs'[s].params.id) \in DOMAIN projects

Stranger(r) ==
    /\ r.user.role # "admin"
    /\ projects[Val(r.params.id)].createdBy # r.user.id

C4_AdminAlwaysSucceeds ==
    [][\A s \in Slots : AnswersOnProject(s) =>
         LET r == reqs'[s]
         IN /\ Stranger(r) => Res(r).code = 403
            /\ r.user.role = "admin" => Res(r).success]_vars

(* C4 as amended: the stranger is answered 403 on all three; an admin is    *)
(* answered 200 on GET and DELETE, and on PUT unless the body's name fails  *)
(* the model's length validator, which answers 400.                         *)
NameRejected(r) ==
    /\ r.route = "updateProject"
    /\ r.body.name # Absent /\ r.body.name # Some("")
    /\ ~(Len(Val(r.body.name)) >= 2 /\ Len(Val(r.body.name)) <= 100)

C4_OwnerOrAdmin ==
    [][\A s \in Slots : AnswersOnProject(s) =>
         LET r == reqs'[s]
         IN /\ Stranger(r) => Res(r).code = 403
            /\ r.user.role = "admin" =>
                 IF NameRejected(r) THEN Res(r).code = 400
                 ELSE Res(r).code = 200 /\ Res(r).success]_vars

(* an admin who did not create the project updated it *)
C4_Witness ==
    \E s \in Slots :
        /\ reqs[s].pc = "done" /\ reqs[s].route = "updateProject"
        /\ Res(reqs[s]).code = 200
        /\ reqs[s].user.role = "admin"
        /\ Val(reqs[s].params.id) \in DOMAIN projects
        /\ projects[Val(reqs[s].params.id)].createdBy # reqs[s].user.id

----------------------------------------------------------------------------
(* C5: isProjectOwnerOrAdmin takes the project id from the route parameter  *)
(* (projectId, then id) and else from the body; with none it answers 400    *)
(* "ID de proyecto no proporcionado"; with no such project 404 "Proyecto no *)
(* encontrado"; for the creator or an admin it attaches the project to the  *)
(* request and calls next(); otherwise it answers 403 and no controller     *)
(* runs.  Stated of every request the gate can be given, with or without    *)
(* ids, and of the requests that wait at it.                                *)
OptionalProjectIds == {Absent} \cup {Some(i) : i \in ProjectIds}

GateInputs ==
    {[Idle EXCEPT !.route = route, !.pc = "isProjectOwnerOrAdmin",
                  !.trail = <<"authenticate">>, !.user = LiveIdentity(u),
                  !.params = [id |-> a, projectId |-> b],
                  !.body = [NoBody EXCEPT !.projectId = c]] :
        route \in GatedRoutes, u \in DOMAIN users,
        a \in OptionalProjectIds, b \in OptionalProjectIds, c \in OptionalProjectIds}
    \cup {reqs[s] : s \in {t \in Slots : reqs[t].pc = "isProjectOwnerOrAdmin"}}

GateAnswered(g, statusCode, message) ==
    /\ g.pc = "done"
    /\ Res(g).code = statusCode /\ ~Res(g).success /\ Res(g).message = message
    /\ g.project = Absent
    /\ g.trail = <<"authenticate", "isProjectOwnerOrAdmin">>

C5_Expected(r, g) ==
    LET id == IF r.params.projectId # Absent THEN r.params.projectId
              ELSE IF r.params.id # Absent THEN r.params.id
              ELSE r.body.projectId
    IN IF id = Absent
       THEN GateAnswered(g, 400, "ID de proyecto no proporcionado")
       ELSE IF Val(id) \notin DOMAIN projects
       THEN GateAnswered(g, 404, "Proyecto no encontrado")
       ELSE IF projects[Val(id)].createdBy = r.user.id \/ r.user.role = "admin"
       THEN /\ g.pc = r.route
            /\ g.res = Absent
            /\ g.project = Some([id |-> Val(id)] @@ projects[Val(id)])
       ELSE GateAnswered(g, 403, "No tiene permiso para modificar este proyecto")

C5_GateContract == \A r \in GateInputs : C5_Expected(r, gateResult(r))

(* the gate turned a request away with 403 and no controller ran *)
C5_Witness ==
    \E s \in Slots :
        /\ reqs[s].pc = "done"
        /\ GateAnswered(reqs[s], 403, "No tiene permiso para modificar este proyecto")

----------------------------------------------------------------------------
(* the task routes, one request at a time, by owners, strangers and admins *)
NextTask ==
    \/ \E q \in RegisterRequests(Emails, {GoodPassword}) : register(1, q)
    \/ register_create(1)
    \/ \E q \in LoginRequests({Some(e) : e \in Emails}, {GoodPassword}) : login(1, q)
    \/ \E q \in CreateProjectRequests(GoodHeaders, {Some("ab")})
                \cup TaskRequests(GoodHeaders) : authenticate(1, q)
    \/ createProject(1)
    \/ TaskSteps({1})
    \/ Close(1)

SpecTask == Init /\ [][NextTask]_vars

(* C6: where a task operation tests the caller against the task's parent    *)
(* project (listing, creating, and get / update / delete by id), it answers *)
(* 403 exactly when the caller is neither the parent's creator nor an admin *)
(* and goes on otherwise, and this is the verdict the project gate gives    *)
(* the same caller on that project.                                         *)
TaskCheckpoints ==
    {"getProjectTasks", "createTask", "getTaskById:project",
     "updateTask:project", "deleteTask:project"}

ParentOf(r) ==
    IF r.route \in {"getProjectTasks", "createTask"}
    THEN Val(r.params.projectId)
    ELSE Val(r.locals.task).projectId

(* slot s takes the step that tests the caller against an existing parent *)
TestsParent(s) ==
    /\ reqs[s].pc \in TaskCheckpoints
    /\ reqs'[s] # reqs[s]
    /\ reqs[s].pc = "createTask" =>
         reqs[s].body.title # Absent /\ reqs[s].body.title # Some("")
    /\ ParentOf(reqs[s]) \in DOMAIN projects

Denied(r) == r.pc = "done" /\ Res(r).code = 403

GateVerdict(r) ==
    gateResult([r EXCEPT !.route = "updateProject", !.pc = "isProjectOwnerOrAdmin",
                         !.params = IdParam(ParentOf(r))])

C6_SameRule ==
    [][\A s \in Slots : TestsParent(s) =>
         LET r == reqs[s]
             parent == projects[ParentOf(r)]
             allowed == parent.createdBy = r.user.id \/ r.user.role = "admin"
         IN /\ Denied(reqs'[s]) <=> ~allowed
            /\ ~Denied(reqs'[s]) =>
                 reqs'[s].pc # "done" \/ Res(reqs'[s]).code = 200
            /\ Denied(reqs'[s]) <=> Denied(GateVerdict(r))]_vars

(* an admin who did not create the parent project got a task by id, and a   *)
(* stranger's request would be turned away                                  *)
C6_Witness ==
    \E s \in Slots :
        /\ reqs[s].pc = "done" /\ reqs[s].route = "getTaskById"
        /\ Res(reqs[s]).code = 200
        /\ reqs[s].user.role = "admin"
        /\ ParentOf(reqs[s]) \in DOMAIN projects
        /\ projects[ParentOf(reqs[s])].createdBy # reqs[s].user.id

----------------------------------------------------------------------------
(* C9: a createTask whose assignedTo names no stored user never changes the *)
(* stored tasks, and when the caller may add tasks to the project it is     *)
(* answered 404 "Usuario asignado no encontrado".                           *)
UnknownAssignee(r) ==
    /\ r.route = "createTask"
    /\ r.body.assignedTo # Absent
    /\ Val(r.body.assignedTo) \notin DOMAIN users

MayAddTasks(r) ==
    /\ r.user # NoUser
    /\ r.body.title # Absent /\ r.body.title # Some("")
    /\ Val(r.params.projectId) \in DOMAIN projects
    /\ isOwnerOrAdmin(projects[Val(r.params.projectId)], r.user)

----------------------------------------------------------------------------
(* two requests in flight: tasks are created in a project while it is being *)
(* deleted                                                                  *)
NextRace ==
    \/ \E q \in RegisterRequests({"a@test.com"}, {GoodPassword}) : register(1, q)
    \/ register_create(1)
    \/ \E q \in LoginRequests({Some("a@test.com")}, {GoodPassword}) : login(1, q)
    \/ \E s \in Slots,
          q \in CreateProjectRequests(GoodHeaders, {Some("ab")})
                \cup ProjectByIdRequests({"deleteProject"}, GoodHeaders)
                \cup CreateTaskRequests(GoodHeaders, {Some("do")}, {Absent, Some(1)}) :
          authenticate(s, q)
    \/ \E s \in Slots : isProjectOwnerOrAdmin(s)
    \/ \E s \in Slots : createProject(s)
    \/ \E s \in Slots : deleteProject(s)
    \/ \E s \in Slots : deleteProject_destroy(s)
    \/ \E s \in Slots : createTask(s)
    \/ \E s \in Slots : createTask_assignee(s)
    \/ \E s \in Slots : createTask_create(s)
    \/ \E s \in Slots : createTask_reload(s)
    \/ \E s \in Slots : Close(s)

SpecRace == Init /\ [][NextRace]_vars

(* C7: every stored task's projectId is the id of a stored project, in      *)
(* every state, whatever requests run and however their steps interleave.   *)
C7_NoOrphanTask == \A t \in DOMAIN tasks : tasks[t].projectId \in DOMAIN projects

(* a createTask that had passed its project and permission checks reached   *)
(* its INSERT after a deleteProject removed the project, or a deleteProject *)
(* removed a project that had a task                                        *)
C7_Witness ==
    \/ \E s \in Slots :
         /\ reqs[s].pc = "done" /\ reqs[s].route = "createTask"
         /\ Res(reqs[s]).code = 500
         /\ Val(reqs[s].params.projectId) \notin DOMAIN projects
         /\ \E t \in Slots :
              /\ reqs[t].pc = "done" /\ reqs[t].route = "deleteProject"
              /\ Res(reqs[t]).code = 200
              /\ reqs[t].params.id = reqs[s].params.projectId

----------------------------------------------------------------------------
(* registration and login with every kind of password *)
NextPassword ==
    \/ \E q \in RegisterRequests(Emails, Passwords) : register(1, q)
    \/ register_create(1)
    \/ \E q \in LoginRequests({Some(e) : e \in Emails}, Passwords) : login(1, q)
    \/ Close(1)

SpecPassword == Init /\ [][NextPassword]_vars

(* the policy as stated: at least 8 characters, an uppercase letter, a      *)
(* lowercase letter and a digit                                             *)
PasswordPolicy(pw) ==
    /\ Len(pw) >= 8
    /\ \E i \in 1..Len(pw) : pw[i] \in Upper
    /\ \E i \in 1..Len(pw) : pw[i] \in Lower
    /\ \E i \in 1..Len(pw) : pw[i] \in Digit

PasswordRejected(r) ==
    /\ r.pc = "done"
    /\ Res(r).code = 400
    /\ Res(r).message = "La contraseña debe tener al menos 8 caracteres, una mayúscula, una minúscula y un número"

(* register reaches its password check: the email is given and not stored *)
ChecksPassword(s) ==
    /\ Arrives(s, "register")
    /\ reqs'[s].body.email # Absent
    /\ User_findOne(Val(reqs'[s].body.email)) = Absent
    /\ reqs'[s].body.password # Absent

(* C11 as stated: register answers 400 for the password, creating no user,  *)
(* exactly when the password fails the stated policy; every password that   *)
(* satisfies the policy passes the password check.                          *)
C11_PolicyExact ==
    [][\A s \in Slots : ChecksPassword(s) =>
         /\ PasswordRejected(reqs'[s]) <=> ~PasswordPolicy(Val(reqs'[s].body.password))
         /\ PasswordRejected(reqs'[s]) => users' = users]_vars

(* what the code does: the password is rejected exactly when it fails the   *)
(* stated policy or holds a character that is neither a letter nor a digit  *)
C11_PolicyAndAlphabet ==
    [][\A s \in Slots : ChecksPassword(s) =>
         LET pw == Val(reqs'[s].body.password)
         IN /\ PasswordRejected(reqs'[s]) <=>
                 \/ ~PasswordPolicy(pw)
                 \/ \E i \in 1..Len(pw) : pw[i] \notin Lower \cup Upper \cup Digit
            /\ PasswordRejected(reqs'[s]) => users' = users]_vars

(* a password that satisfies the stated policy was rejected *)
C11_Witness ==
    \E s \in Slots :
        /\ reqs[s].route = "register"
        /\ PasswordRejected(reqs[s])
        /\ PasswordPolicy(Val(reqs[s].body.password))

----------------------------------------------------------------------------
(* req.query.format: absent, xml, and a value that is not exactly xml *)
Formats == {Absent, Some("xml"), Some("XML")}

WithFormat(Q, formats) == {[q EXCEPT !.format = f] : q \in Q, f \in formats}

UnmatchedRequests(routes, headers) ==
    {Request(route, h, NoParams, NoBody) : route \in routes, h \in headers}

(* every gate and handler, and the handlers around the routes, one request  *)
(* at a time, in every format                                               *)
NextPipeline ==
    \/ \E q \in WithFormat({q \in RegisterRequests(Emails, {GoodPassword, WeakPassword}) :
                              q.body.role = Absent}, Formats) :
          register(1, q)
    \/ register_create(1)
    \/ \E q \in WithFormat(LoginRequests({Some(e) : e \in Emails},
                                         {GoodPassword, WeakPassword}), Formats) :
          login(1, q)
    \/ \E q \in WithFormat(AccountRequests({"getProfile", "getProjects"},
                                           GoodHeaders \cup {Absent})
                           \cup CreateProjectRequests(GoodHeaders, {Some("ab")})
                           \cup ProjectByIdRequests({"getProjectById", "deleteProject"},
                                                    GoodHeaders)
                           \cup UpdateProjectRequests(GoodHeaders, {Some("x"), Some("cd")})
                           \cup ProjectTasksRequests(GoodHeaders)
                           \cup CreateTaskRequests(GoodHeaders, {Some("do")},
                                                   {Some(1), Some(MaxUsers + 1)})
                           \cup TaskByIdRequests({"getTaskById", "deleteTask"}, GoodHeaders)
                           \cup UpdateTaskRequests(GoodHeaders, {Some("it")}, {Some(2)})
                           \cup UnmatchedRequests({"api/proyectos/*", "api/tareas/*"},
                                                  GoodHeaders \cup {Absent}),
                           Formats) :
          authenticate(1, q)
    \/ getProfile(1)
    \/ getProjects(1)
    \/ ProjectSteps({1})
    \/ TaskSteps({1})
    \/ notFound_authenticated(1)
    \/ \E q \in WithFormat(UnmatchedRequests({"api/*"}, {Absent}), Formats) :
          notFound(1, q)
    \/ \E q \in WithFormat(UnmatchedRequests({"*"}, {Absent}), Formats) :
          finalhandler(1, q)
    \/ \E q \in WithFormat(UnmatchedRequests({"api/"}, {Absent}), Formats) : apiRoot(1, q)
    \/ \E q \in WithFormat(CreateProjectRequests(GoodHeaders \cup {Absent}, {Some("ab")}),
                           Formats) :
          expressJson_error(1, q)
    \/ Close(1)

SpecPipeline == Init /\ [][NextPipeline]_vars

(* the answers of the gates, the controllers, the unmatched-route handler   *)
(* and the global error handler: all of them but Express's own 404 page     *)
Sent ==
    {Val(reqs[s].res) : s \in {t \in Slots : reqs[t].pc = "done"
                                             /\ reqs[t].trail[Len(reqs[t].trail)] # "finalhandler"}}

(* C12: every response of a gate, a handler, the unmatched-route handler or *)
(* the global error handler has exactly the keys success, code, message,    *)
(* data and timestamp; code is the HTTP status sent; success is true        *)
(* exactly when 200 <= code < 300.                                          *)
C12_Envelope ==
    \A h \in Sent :
        /\ DOMAIN h.body = {"success", "code", "message", "data", "timestamp"}
        /\ h.body.code = h.status
        /\ h.body.success <=> (h.body.code >= 200 /\ h.body.code < 300)

(* the global error handler, a gate and the unmatched-route handler have    *)
(* each answered                                                            *)
C12_Witness ==
    \E s \in Slots :
        /\ reqs[s].pc = "done"
        /\ reqs[s].trail = <<"authenticate", "notFound">>
        /\ Val(reqs[s].res).status = 404
        /\ Val(reqs[s].res).body.success = FALSE

----------------------------------------------------------------------------
(* formatResponse on its own: a handler calls it with a status code, data,  *)
(* a message and the request's format                                       *)
formatResponse_call(s, statusCode, data, message, format) ==
    /\ Free(s)
    /\ reqs' = [reqs EXCEPT ![s] =
          [Idle EXCEPT !.pc = "done", !.route = "formatResponse",
                       !.format = Some(format), !.trail = <<"formatResponse">>,
                       !.res = Some(sendResponse(statusCode, data, message, format))]]
    /\ UNCHANGED <<users, projects, tasks, projectSeq, taskSeq, now, issued>>

StatusCodes == {200, 201, 400, 404, 500}

UserData ==
    JsObject(<<"id", "email">>, <<JsNumber(1), JsString("a@test.com")>>)

(* userData of register: createdAt is the Date Sequelize set *)
CreatedUserData ==
    JsObject(<<"id", "email", "createdAt">>,
             <<JsNumber(1), JsString("a@test.com"), JsDate("2026-01-01T00:00:00.000Z")>>)

DataValues ==
    {JsNull, JsString("ok"), JsString(""), JsNumber(0), JsNumber(7), JsBoolean(TRUE),
     JsArray(<<>>), JsArray(<<JsNumber(1), JsString("a")>>), JsArray(<<JsNull>>),
     UserData, CreatedUserData,
     JsObject(<<"user", "token">>, <<UserData, JsString("jwt")>>),
     JsArray(<<UserData, UserData>>)}

NextXml ==
    \/ \E statusCode \in StatusCodes, data \in DataValues,
          message \in {Absent, Some(""), Some("Hecho")}, format \in {"json", "xml", "XML"} :
          formatResponse_call(1, statusCode, data, message, format)
    \/ Close(1)
    \/ Tick

SpecXml == Init /\ [][NextXml]_vars

(* the XML the stated correspondence gives for a JSON value: a sequence as  *)
(* repeated item elements, an object as elements named after its keys, a    *)
(* scalar leaf as its string                                                *)
RECURSIVE xmlOf(_)
xmlOf(j) ==
    IF j.kind = "array"
    THEN XmlElements([i \in 1..Len(j.kids) |-> "item"],
                     [i \in 1..Len(j.kids) |-> xmlOf(j.kids[i])])
    ELSE IF j.kind = "object"
    THEN XmlElements(j.keys, [i \in 1..Len(j.kids) |-> xmlOf(j.kids[i])])
    ELSE XmlText(j.leaf)

RECURSIVE holdsDate(_)
holdsDate(v) ==
    \/ v.kind = "date"
    \/ \E i \in 1..Len(v.kids) : holdsDate(v.kids[i])

Calls ==
    {Val(reqs[s].res).call : s \in {t \in Slots : reqs[t].pc = "done"
                                                  /\ reqs[t].route = "formatResponse"}}

SameEnvelope(c) ==
    LET x == sendResponse(c.statusCode, c.data, c.message, "xml")
        j == sendResponse(c.statusCode, c.data, c.message, "json")
    IN /\ x.status = j.status
       /\ x.body = [declaration |-> TRUE,
                    root |-> XmlElements(<<"response">>, <<xmlOf(j.body)>>)]

(* C13 as stated: for the same statusCode, data and message the XML body is *)
(* the JSON body in XML syntax: same success, code, message and data.       *)
C13_SameEnvelope == \A c \in Calls : SameEnvelope(c)

(* what the code does: the two bodies agree when data holds no Date *)
C13_SameWithoutDates == \A c \in Calls : ~holdsDate(c.data) => SameEnvelope(c)

(* register's userData was sent as XML *)
C13_Witness ==
    \E s \in Slots :
        /\ reqs[s].pc = "done" /\ reqs[s].route = "formatResponse"
        /\ Val(reqs[s].res).serializer = "generateXML"
        /\ Val(reqs[s].res).call.data = CreatedUserData
        /\ ~SameEnvelope(Val(reqs[s].res).call)

----------------------------------------------------------------------------
Answered == {s \in Slots : reqs[s].pc = "done" /\ reqs[s].route # "formatResponse"}

(* C14 as stated: every response to a request whose format query parameter  *)
(* is xml is serialized as XML with Content-Type application/xml, the 4xx   *)
(* of gates and handlers, the 404 of an unmatched route and the 500 of an   *)
(* uncaught error included.                                                 *)
C14_XmlEverywhere ==
    \A s \in Answered :
        reqs[s].format = Some("xml") =>
            /\ Val(reqs[s].res).serializer = "generateXML"
            /\ Val(reqs[s].res).contentType = "application/xml"

(* a request with format=xml whose body express.json() could not parse was  *)
(* answered 500 by the global error handler, in JSON                        *)
C14_Witness ==
    \E s \in Answered :
        /\ reqs[s].format = Some("xml")
        /\ reqs[s].trail = <<"express.json", "errorHandler">>
        /\ Val(reqs[s].res).status = 500
        /\ Val(reqs[s].res).contentType = "application/json"

(* C15: a response that goes through formatResponse is serialized as XML    *)
(* exactly when the request's format is exactly xml, and as JSON when it is *)
(* absent or anything else; the Content-Type names the serialization sent,  *)
(* and the HTTP status is the statusCode the formatter was given.           *)
Formatted ==
    {s \in Answered :
        reqs[s].trail[Len(reqs[s].trail)] \notin {"finalhandler", "errorHandler"}}

C15_FormatChoice ==
    \A s \in Formatted :
        LET h == Val(reqs[s].res)
        IN /\ h.serializer = "generateXML" <=> reqs[s].format = Some("xml")
           /\ h.serializer \in {"generateXML", "res.json"}
           /\ h.contentType = IF h.serializer = "generateXML"
                              THEN "application/xml" ELSE "application/json"
           /\ h.status = h.body.code

(* a 403 from a controller was sent as XML, and a request with format=XML   *)
(* would get JSON                                                           *)
C15_Witness ==
    \E s \in Formatted :
        /\ reqs[s].format = Some("xml")
        /\ Val(reqs[s].res).status = 403
        /\ Val(reqs[s].res).contentType = "application/xml"

----------------------------------------------------------------------------
NotFoundEnvelope(h) ==
    /\ h.status = 404
    /\ DOMAIN h.body = {"success", "code", "message", "data", "timestamp"}
    /\ h.body.code = 404 /\ ~h.body.success

(* C16 as stated: every request that matches no route is answered with a    *)
(* 404 envelope, with or without a credential, under any path prefix.       *)
C16_Unmatched404 ==
    \A s \in Answered :
        reqs[s].route \in UnmatchedRoutes => NotFoundEnvelope(Val(reqs[s].res))

(* what the code does: the 404 envelope is what an unmatched path under     *)
(* /api gets, unless it is under /api/proyectos or /api/tareas and          *)
(* authenticate turns the request away with 401 first                       *)
C16_UnmatchedInsideApi ==
    \A s \in Answered :
        reqs[s].route \in UnmatchedRoutes \ {"*"} =>
            \/ NotFoundEnvelope(Val(reqs[s].res))
            \/ /\ reqs[s].route \in Protected
               /\ reqs[s].trail = <<"authenticate">>
               /\ Val(reqs[s].res).status = 401

(* an unmatched path under /api/proyectos, sent without a credential, was   *)
(* answered 401                                                             *)
C16_Witness ==
    \E s \in Answered :
        /\ reqs[s].route = "api/proyectos/*"
        /\ reqs[s].authorization = Absent
        /\ Val(reqs[s].res).status = 401

----------------------------------------------------------------------------
(* every route, one request at a time, with storage calls that may throw *)
NextFailure ==
    \/ \E q \in {q \in RegisterRequests(Emails, {GoodPassword}) : q.body.role = Absent} :
          register(1, q) \/ account_throws(1, q)
    \/ register_create(1)
    \/ \E q \in LoginRequests({Some(e) : e \in Emails}, {GoodPassword}) :
          login(1, q) \/ account_throws(1, q)
    \/ \E q \in AccountRequests({"getProfile", "getProjects"}, GoodHeaders)
                \cup CreateProjectRequests(GoodHeaders, {Some("ab")})
                \cup ProjectByIdRequests({"getProjectById", "deleteProject"}, GoodHeaders)
                \cup UpdateProjectRequests(GoodHeaders, {Some("cd")})
                \cup ProjectTasksRequests(GoodHeaders)
                \cup CreateTaskRequests(GoodHeaders, {Some("do")}, {Some(1)})
                \cup TaskByIdRequests({"getTaskById", "deleteTask"}, GoodHeaders)
                \cup UpdateTaskRequests(GoodHeaders, {Some("it")}, {Some(2)}) :
          authenticate(1, q) \/ authenticate_throws(1, q)
    \/ getProfile(1)
    \/ getProjects(1)
    \/ ProjectSteps({1})
    \/ TaskSteps({1})
    \/ isProjectOwnerOrAdmin_throws(1)
    \/ controller_throws(1)
    \/ Close(1)

SpecFailure == Init /\ [][NextFailure]_vars

GenericMessages ==
    {"Error en autenticación", "Error al verificar permisos",
     "Error al registrar usuario", "Error al iniciar sesión",
     "Error al obtener perfil de usuario", "Error al obtener proyectos",
     "Error al obtener proyecto", "Error al crear proyecto",
     "Error al actualizar proyecto", "Error al eliminar proyecto",
     "Error al obtener tareas", "Error al obtener tarea", "Error al crear tarea",
     "Error al actualizar tarea", "Error al eliminar tarea"}

(* the handler whose storage call threw answered in this step *)
Caught(s) ==
    /\ Answers(s)
    /\ reqs'[s].trail[Len(reqs'[s].trail)] = "catch"

(* C17: a failure thrown inside a gate or a controller is answered by that  *)
(* gate or controller with a 500 envelope whose message is its fixed        *)
(* generic one ("Error en autenticación" from authenticate, "Error al       *)
(* verificar permisos" from isProjectOwnerOrAdmin) and whose data is null;  *)
(* no 500 carries anything else; a request is answered once: an answered    *)
(* request is never answered again, and none leaves without an answer.      *)
C17_CaughtAndGeneric ==
    [][\A s \in Slots :
         /\ Caught(s) =>
              LET r == reqs'[s]
                  h == Val(r.res)
                  thrower == r.trail[Len(r.trail) - 1]
              IN /\ h.status = 500 /\ h.body.code = 500 /\ ~h.body.success
                 /\ h.body.data = Absent
                 /\ h.body.message \in GenericMessages
                 /\ thrower = "authenticate" => h.body.message = "Error en autenticación"
                 /\ thrower = "isProjectOwnerOrAdmin" =>
                      h.body.message = "Error al verificar permisos"
         /\ Answers(s) /\ Val(reqs'[s].res).status = 500 =>
              /\ Res(reqs'[s]).message \in GenericMessages
              /\ Res(reqs'[s]).data = Absent
         /\ reqs[s].pc = "done" => reqs'[s] \in {reqs[s], Idle}
         /\ reqs[s].pc # "idle" /\ reqs'[s].pc = "idle" => reqs[s].pc = "done"]_vars

(* the gate's storage call threw and the gate answered 500 *)
C17_Witness ==
    \E s \in Slots :
        /\ reqs[s].pc = "done"
        /\ reqs[s].trail = <<"authenticate", "isProjectOwnerOrAdmin", "catch">>
        /\ Val(reqs[s].res).status = 500
        /\ Res(reqs[s]).message = "Error al verificar permisos"

----------------------------------------------------------------------------
(* GET /proyectos with its filters *)
ListRequests(headers, statuses, searches) ==
    {[q EXCEPT !.query = [status |-> st, search |-> se]] :
        q \in AccountRequests({"getProjects"}, headers),
        st \in statuses, se \in searches}

(* two accounts, one of them possibly an admin, create projects and list    *)
(* them under every filter                                                  *)
NextList ==
    \/ \E q \in RegisterRequests(Emails, {GoodPassword}) : register(1, q)
    \/ register_create(1)
    \/ \E q \in LoginRequests({Some(e) : e \in Emails}, {GoodPassword}) : login(1, q)
    \/ \E q \in {[c EXCEPT !.body.status = st] :
                    c \in CreateProjectRequests(GoodHeaders, {Some("ab"), Some("cd")}),
                    st \in {Absent, Some("completed")}}
                \cup ListRequests(GoodHeaders,
                                  {Absent, Some("active"), Some("completed"), Some("bogus")},
                                  {Absent, Some("a"), Some("z")}) :
          authenticate(1, q)
    \/ createProject(1)
    \/ getProjects(1)
    \/ Close(1)

SpecList == Init /\ [][NextList]_vars

(* getProjects answers in this step *)
Lists(s) == reqs[s].pc = "getProjects" /\ Answers(s)

(* project p passes the status and search filters of the query *)
PassesFilters(p, query) ==
    /\ (query.status # Absent /\ Val(query.status) \in ProjectStatuses)
         => projects[p].status = Val(query.status)
    /\ (query.search # Absent /\ query.search # Some(""))
         => \E u \in Affixes, v \in Affixes :
               u \o Val(query.search) \o v = projects[p].name

(* C18 as stated: GET /proyectos gives a non-admin caller exactly the       *)
(* projects they created that pass the status and search filters, and an    *)
(* admin caller all projects (that pass the filters).                       *)
C18_ListContract ==
    [][\A s \in Slots : Lists(s) =>
         LET r == reqs'[s]
         IN /\ Res(r).code = 200
            /\ Res(r).data =
                 Some({p \in DOMAIN projects :
                         /\ r.user.role # "admin" => projects[p].createdBy = r.user.id
                         /\ PassesFilters(p, r.query)})]_vars

(* C18, the part that holds: a non-admin caller gets exactly their own      *)
(* projects that pass the filters, never a project of someone else; an      *)
(* admin caller gets no list at all, but 500.                               *)
C18_OwnProjectsOnly ==
    [][\A s \in Slots : Lists(s) =>
         LET r == reqs'[s]
         IN IF r.user.role = "admin"
            THEN Res(r).code = 500 /\ Res(r).data = Absent
            ELSE /\ Res(r).code = 200
                 /\ Res(r).data =
                      Some({p \in DOMAIN projects :
                              /\ projects[p].createdBy = r.user.id
                              /\ PassesFilters(p, r.query)})
                 /\ \A p \in Val(Res(r).data) : projects[p].createdBy = r.user.id]_vars

(* an admin lists the projects while one exists, and is answered 500 *)
C18_Witness ==
    \E s \in Slots :
        /\ reqs[s].pc = "done" /\ reqs[s].route = "getProjects"
        /\ reqs[s].user.role = "admin"
        /\ DOMAIN projects # {}
        /\ Val(reqs[s].res).status = 500

(* a non-admin lists while the only project is someone else's: empty list *)
C18_WitnessOthers ==
    \E s \in Slots :
        /\ reqs[s].pc = "done" /\ reqs[s].route = "getProjects"
        /\ reqs[s].user.role = "user"
        /\ \E p \in DOMAIN projects : projects[p].createdBy # reqs[s].user.id
        /\ Res(reqs[s]).data = Some({})

----------------------------------------------------------------------------
(* POST /auth/login with every shape of body: a field missing or empty, an  *)
(* unknown email, a wrong password                                          *)
LoginBodies(emails, passwords) ==
    {Request("login", Absent, NoParams,
             [NoBody EXCEPT !.email = e, !.password = p]) :
        e \in emails, p \in passwords}

(* accounts are registered, switched off and on, and logged into *)
NextLogin ==
    \/ \E q \in {q \in RegisterRequests(Emails, {GoodPassword}) : q.body.role = Absent} :
          register(1, q)
    \/ register_create(1)
    \/ \E q \in LoginBodies({Absent, Some("")} \cup {Some(e) : e \in Emails},
                            {Absent, Some(<<>>), Some(GoodPassword), Some(WeakPassword)}) :
          login(1, q)
    \/ \E q \in AccountRequests({"getProfile"}, GoodHeaders) : authenticate(1, q)
    \/ getProfile(1)
    \/ Close(1)
    \/ \E i \in UserIds, b \in BOOLEAN : SetActive(i, b)
    \/ Tick

SpecLogin == Init /\ [][NextLogin]_vars

(* login answers in this step *)
LogsIn(s) == reqs[s].pc = "idle" /\ reqs'[s].route = "login" /\ reqs'[s].pc = "done"

Given(field) == field # Absent /\ Len(Val(field)) > 0

(* an identity with this email exists, is active, and the password is the   *)
(* one its stored hash was made from                                        *)
MayLogIn(body) ==
    /\ Given(body.email) /\ Given(body.password)
    /\ \E i \in DOMAIN users :
          /\ users[i].email = Val(body.email)
          /\ users[i].active
          /\ users[i].password = bcryptHash(Val(body.password))

(* C19: login issues a token (200, data.token) exactly when an identity     *)
(* with the given email exists, is active and the given password matches    *)
(* its stored hash; a missing email or password is answered 400, an unknown *)
(* email, a wrong password or an inactive identity 401, each with data null *)
(* (no token), and no token is issued.                                      *)
C19_TokenOnlyOnMatch ==
    [][\A s \in Slots : LogsIn(s) =>
         LET body == reqs'[s].body
             h == Val(reqs'[s].res)
         IN IF MayLogIn(body)
            THEN /\ h.status = 200
                 /\ Val(h.body.data).token \in issued'
                 /\ jwtVerify(Val(h.body.data).token, JWT_SECRET).payload.email
                      = Val(body.email)
            ELSE /\ h.body.data = Absent
                 /\ issued' = issued
                 /\ h.status = IF Given(body.email) /\ Given(body.password)
                               THEN 401 ELSE 400
                 /\ (/\ Given(body.email) /\ Given(body.password)
                     /\ \E i \in DOMAIN users :
                           users[i].email = Val(body.email) /\ ~users[i].active)
                      => h.body.message = "Usuario inactivo. Contacte al administrador"]_vars

(* an existing, active identity logs in with a wrong password: 401, no token *)
C19_Witness ==
    \E s \in Slots :
        /\ reqs[s].pc = "done" /\ reqs[s].route = "login"
        /\ Given(reqs[s].body.email) /\ Given(reqs[s].body.password)
        /\ \E i \in DOMAIN users :
              /\ users[i].email = Val(reqs[s].body.email)
              /\ users[i].active
              /\ users[i].password # bcryptHash(Val(reqs[s].body.password))
        /\ Val(reqs[s].res).status = 401
        /\ Res(reqs[s]).data = Absent

----------------------------------------------------------------------------
(* two clients register at once, with the same email or with different ones *)
NextRegisterRace ==
    \/ \E s \in Slots :
         \E q \in {q \in RegisterRequests(Emails, {GoodPassword, WeakPassword}) :
                      q.body.role = Absent} :
            register(s, q)
    \/ \E s \in Slots : register_create(s)
    \/ \E s \in Slots :
         \E q \in LoginRequests({Some(e) : e \in Emails}, {GoodPassword}) : login(s, q)
    \/ \E s \in Slots : Close(s)

SpecRegisterRace == Init /\ [][NextRegisterRace]_vars

NoSharedEmail ==
    \A i \in DOMAIN users, j \in DOMAIN users : users[i].email = users[j].email => i = j

(* slot s holds the answer to a register request for this email *)
Registered(s, email, status) ==
    /\ reqs[s].pc = "done" /\ reqs[s].route = "register"
    /\ reqs[s].body.email = Some(email)
    /\ Val(reqs[s].res).status = status

(* C20: no two stored identities share an email, also when two register     *)
(* requests with one email both pass the lookup before either creates: the  *)
(* create that comes second is answered 400 and stores nothing, and never   *)
(* are two registrations of one email both answered 201.                    *)
C20_UniqueEmail ==
    [][/\ NoSharedEmail'
       /\ \A s \in Slots :
            (/\ reqs[s].pc = "register:create"
             /\ Answers(s)
             /\ \E i \in DOMAIN users : Some(users[i].email) = reqs[s].body.email)
            => /\ Val(reqs'[s].res).status = 400
               /\ Res(reqs'[s]).data = Absent
               /\ users' = users
       /\ \A s \in Slots, t \in Slots, e \in Emails :
            (Registered(s, e, 201) /\ Registered(t, e, 201))' => s = t]_vars

(* both requests passed the lookup; one was answered 201, the other 400 by  *)
(* the unique index                                                         *)
C20_Witness ==
    \E s \in Slots, t \in Slots, e \in Emails :
        /\ Registered(s, e, 201)
        /\ Registered(t, e, 400)
        /\ Res(reqs[t]).message = "email must be unique"
        /\ Cardinality({i \in DOMAIN users : users[i].email = e}) = 1

----------------------------------------------------------------------------
(* what a client can put in assignedTo: nothing, null, 0, '', the id of an  *)
(* identity, an id no identity has                                          *)
AssignedToValues ==
    {Absent, Some(Null), Some(Zero), Some(EmptyString), Some(1), Some(MaxUsers + 1)}

(* tasks are created and updated with every value of assignedTo *)
NextAssign ==
    \/ \E q \in {q \in RegisterRequests(Emails, {GoodPassword}) : q.body.role = Absent} :
          register(1, q)
    \/ register_create(1)
    \/ \E q \in LoginRequests({Some(e) : e \in Emails}, {GoodPassword}) : login(1, q)
    \/ \E q \in CreateProjectRequests(GoodHeaders, {Some("ab")})
                \cup CreateTaskRequests(GoodHeaders, {Some("do")}, AssignedToValues)
                \cup UpdateTaskRequests(GoodHeaders, {Absent, Some("it")}, AssignedToValues) :
          authenticate(1, q)
    \/ createProject(1)
    \/ createTask(1)
    \/ createTask_assignee(1)
    \/ createTask_create(1)
    \/ createTask_reload(1)
    \/ updateTask(1)
    \/ updateTask_project(1)
    \/ updateTask_assignee(1)
    \/ updateTask_save(1)
    \/ updateTask_reload(1)
    \/ Close(1)

SpecAssign == Init /\ [][NextAssign]_vars

(* C21: in every reachable state each task's assignedTo is NULL or the id   *)
(* of a stored identity, whatever createTask and updateTask were sent in    *)
(* assignedTo; a create or an update that would store 0 or '' (values that  *)
(* skip the lookup) is refused by the database and stores nothing.          *)
C21_AssigneeExists ==
    \A t \in DOMAIN tasks :
        tasks[t].assignedTo = Absent \/ Val(tasks[t].assignedTo) \in DOMAIN users

(* a falsy value other than null skipped the lookup, reached the INSERT or  *)
(* the UPDATE and was refused: 500, and no task carries it                  *)
C21_Witness ==
    \E s \in Slots :
        /\ reqs[s].pc = "done"
        /\ reqs[s].route \in {"createTask", "updateTask"}
        /\ reqs[s].body.assignedTo \in {Some(Zero), Some(EmptyString)}
        /\ "createTask:assignee" \notin {reqs[s].trail[i] : i \in DOMAIN reqs[s].trail}
        /\ Val(reqs[s].res).status = 500
        /\ \A t \in DOMAIN tasks : tasks[t].assignedTo # reqs[s].body.assignedTo

(* an update with null clears the assignee of an assigned task *)
C21_WitnessNull ==
    \E s \in Slots :
        /\ reqs[s].pc = "done" /\ reqs[s].route = "updateTask"
        /\ reqs[s].body.assignedTo = Some(Null)
        /\ Val(reqs[s].res).status = 200
        /\ Val(reqs[s].locals.task).assignedTo # Absent
        /\ tasks[Val(reqs[s].params.id)].assignedTo = Absent

----------------------------------------------------------------------------
(* every route, one request at a time, with and without a credential, with  *)
(* bodies the validators refuse, ids that do not exist and projects of      *)
(* someone else                                                             *)
NextFrame ==
    \/ \E q \in {q \in RegisterRequests(Emails, {GoodPassword, WeakPassword}) :
                    q.body.role = Absent} :
          register(1, q)
    \/ register_create(1)
    \/ \E q \in LoginRequests({Some(e) : e \in Emails}, {GoodPassword, WeakPassword}) :
          login(1, q)
    \/ \E q \in AccountRequests({"getProfile", "getProjects"}, GoodHeaders \cup {Absent})
                \cup CreateProjectRequests(GoodHeaders, {Absent, Some("x"), Some("ab")})
                \cup ProjectByIdRequests({"getProjectById", "deleteProject"},
                                         GoodHeaders \cup {Absent})
                \cup UpdateProjectRequests(GoodHeaders, {Some("x"), Some("cd")})
                \cup ProjectTasksRequests(GoodHeaders)
                \cup CreateTaskRequests(GoodHeaders, {Absent, Some("x"), Some("do")},
                                        {Absent, Some(1), Some(MaxUsers + 1)})
                \cup TaskByIdRequests({"getTaskById", "deleteTask"}, GoodHeaders)
                \cup UpdateTaskRequests(GoodHeaders, {Some("x"), Some("it")},
                                        {Absent, Some(1), Some(MaxUsers + 1)}) :
          authenticate(1, q)
    \/ getProfile(1)
    \/ getProjects(1)
    \/ ProjectSteps({1})
    \/ TaskSteps({1})
    \/ Close(1)

SpecFrame == Init /\ [][NextFrame]_vars

Persisted == <<users, projects, tasks>>

(* where a request stands after a write that did not answer it *)
AfterWrite == {"createTask:reload", "updateTask:reload"}

ClientError(r) == Val(r.res).status >= 400 /\ Val(r.res).status < 500

(* C22: a request answered 4xx by a gate or a handler (400, 401, 403, 404)  *)
(* leaves the stored identities, projects and tasks as they were before it: *)
(* the step that gives the answer writes nothing, and no earlier step of    *)
(* the request wrote anything (a request that wrote without answering       *)
(* stands at a reload, and a reload never answers 4xx).                     *)
C22_ClientErrorWritesNothing ==
    [][\A s \in Slots :
         /\ (Answers(s) /\ ClientError(reqs'[s]))
              => /\ Persisted' = Persisted
                 /\ reqs[s].pc \notin AfterWrite
         /\ (Persisted' # Persisted /\ reqs'[s] # reqs[s] /\ ~Answers(s))
              => reqs'[s].pc \in AfterWrite]_vars

(* the validators refused an update (400) and the project kept its name *)
C22_Witness ==
    \E s \in Slots :
        /\ reqs[s].pc = "done" /\ reqs[s].route = "updateProject"
        /\ Val(reqs[s].res).status = 400
        /\ reqs[s].body.name = Some("x")
        /\ Val(reqs[s].params.id) \in DOMAIN projects
        /\ projects[Val(reqs[s].params.id)].name # "x"

----------------------------------------------------------------------------
WithCreatedBy(Q, ids) == {[q EXCEPT !.body.createdBy = c] : q \in Q, c \in ids}

(* an owner and an admin create and update projects, with bodies that name  *)
(* an owner                                                                 *)
NextOwner ==
    \/ \E q \in RegisterRequests(Emails, {GoodPassword}) : register(1, q)
    \/ register_create(1)
    \/ \E q \in LoginRequests({Some(e) : e \in Emails}, {GoodPassword}) : login(1, q)
    \/ \E q \in WithCreatedBy(CreateProjectRequests(GoodHeaders, {Some("ab")})
                              \cup UpdateProjectRequests(GoodHeaders,
                                                         {Absent, Some("x"), Some("cd")}),
                              {Absent} \cup {Some(u) : u \in UserIds}) :
          authenticate(1, q)
    \/ isProjectOwnerOrAdmin(1)
    \/ createProject(1)
    \/ updateProject(1)
    \/ updateProject_save(1)
    \/ Close(1)

SpecOwner == Init /\ [][NextOwner]_vars

(* C23: a project's createdBy is the id of the authenticated caller who     *)
(* created it, whatever the body says, and no step changes it afterwards:   *)
(* no updateProject, by the owner or by an admin, with or without createdBy *)
(* in the body.                                                             *)
C23_OwnerFixed ==
    [][/\ \A p \in DOMAIN projects \cap DOMAIN projects' :
            projects'[p].createdBy = projects[p].createdBy
       /\ \A p \in DOMAIN projects' \ DOMAIN projects :
            \E s \in Slots :
               /\ reqs[s].pc = "createProject" /\ Answers(s)
               /\ reqs[s].user.id \in DOMAIN users
               /\ projects'[p].createdBy = reqs[s].user.id]_vars

(* an admin who is not the owner updated the project with their own id in   *)
(* createdBy: 200, and the project is still its creator's                   *)
C23_Witness ==
    \E s \in Slots :
        /\ reqs[s].pc = "done" /\ reqs[s].route = "updateProject"
        /\ Val(reqs[s].res).status = 200
        /\ reqs[s].user.role = "admin"
        /\ reqs[s].body.createdBy = Some(reqs[s].user.id)
        /\ reqs[s].body.name = Some("cd")
        /\ projects[Val(reqs[s].params.id)].name = "cd"
        /\ projects[Val(reqs[s].params.id)].createdBy # reqs[s].user.id

====
